---- MODULE Spec2Model ----
(***************************************************************************)
(* Model of the Bhagavad Gita question-answering backend.                  *)
(*                                                                         *)
(*   app/routers/chat.py                the response cache, the query      *)
(*                                      normaliser, the guardrail, the     *)
(*                                      reranker and the two request       *)
(*                                      pipelines (synchronous, streaming) *)
(*   app1/services/*_context_service.py the session (conversation) store   *)
(*   app1/endpoints/chat.py             the streaming endpoint that uses   *)
(*                                      the session store                  *)
(*                                                                         *)
(* Text is modelled as a sequence of one-character strings, so that        *)
(* strip(), lower(), split(), the substring tests and the regular          *)
(* expression chapter\s*(\d+) are computed the way Python computes them.   *)
(* Similarity scores are integers in hundredths (0.5 is 50).               *)
(***************************************************************************)
EXTENDS Integers, Sequences, FiniteSets, TLC

VARIABLES
    now,               \* time.time(), in seconds
    response_cache,    \* chat.response_cache: entries in dict (insertion) order
    indexed_chapters,  \* chapter numbers found in the vector index's sample
    last,              \* what the most recent request returned and called
    stream,            \* the process_and_stream generator being consumed
    threads,           \* request threads of the executor: position and locals
    conversations,     \* MemoryContextService.conversations
    messages_table,    \* rows of the durable 'messages' table
    enabled,           \* SupabaseContextService.enabled
    next_id,           \* number of uuid4 message ids handed out
    embedding_cache,   \* embeddings._embedding_cache: entries in dict order
    embed_calls        \* calls of embed_text_async waiting for the service

vars == <<now, response_cache, indexed_chapters, last, stream, threads,
          conversations, messages_table, enabled, next_id, embedding_cache,
          embed_calls>>

embedding == <<embedding_cache, embed_calls>>

-----------------------------------------------------------------------------
(* Text helpers: Python's str methods on sequences of characters.          *)

UpperChars == <<"A","B","C","D","E","F","G","H","I","J","K","L","M",
                "N","O","P","Q","R","S","T","U","V","W","X","Y","Z">>
LowerChars == <<"a","b","c","d","e","f","g","h","i","j","k","l","m",
                "n","o","p","q","r","s","t","u","v","w","x","y","z">>
Whitespace == {" ", "\t", "\n"}
Digits == <<"0","1","2","3","4","5","6","7","8","9">>

LowerChar(c) ==
    IF \E i \in 1..Len(UpperChars) : UpperChars[i] = c
    THEN LowerChars[CHOOSE i \in 1..Len(UpperChars) : UpperChars[i] = c]
    ELSE c

\* str.lower()
Lower(s) == [i \in 1..Len(s) |-> LowerChar(s[i])]

RECURSIVE LStrip(_)
LStrip(s) == IF s # <<>> /\ Head(s) \in Whitespace THEN LStrip(Tail(s)) ELSE s

RECURSIVE RStrip(_)
RStrip(s) ==
    IF s # <<>> /\ s[Len(s)] \in Whitespace
    THEN RStrip(SubSeq(s, 1, Len(s) - 1))
    ELSE s

\* str.strip()
Strip(s) == RStrip(LStrip(s))

\* `sub in s`
Contains(s, sub) ==
    \E i \in 0..(Len(s) - Len(sub)) : SubSeq(s, i + 1, i + Len(sub)) = sub

\* any(keyword in s for keyword in keywords)
ContainsAny(s, keywords) == \E k \in keywords : Contains(s, k)

\* set(s.split()): the maximal runs of non-whitespace characters
Words(s) ==
    { SubSeq(s, i, j) : <<i, j>> \in
        { p \in (1..Len(s)) \X (1..Len(s)) :
            /\ p[1] <= p[2]
            /\ \A k \in p[1]..p[2] : s[k] \notin Whitespace
            /\ (p[1] = 1 \/ s[p[1] - 1] \in Whitespace)
            /\ (p[2] = Len(s) \/ s[p[2] + 1] \in Whitespace) } }

IsDigit(c) == \E d \in 1..Len(Digits) : Digits[d] = c
DigitValue(c) == (CHOOSE d \in 1..Len(Digits) : Digits[d] = c) - 1

\* first position >= i of s that holds no whitespace (\s*)
RECURSIVE SkipSpace(_, _)
SkipSpace(s, i) ==
    IF i <= Len(s) /\ s[i] \in Whitespace THEN SkipSpace(s, i + 1) ELSE i

\* (\d+) from position i: [value, next position]; next = i when no digit
RECURSIVE ReadDigits(_, _, _)
ReadDigits(s, i, acc) ==
    IF i <= Len(s) /\ IsDigit(s[i])
    THEN ReadDigits(s, i + 1, 10 * acc + DigitValue(s[i]))
    ELSE [value |-> acc, next |-> i]

Chapter == <<"c","h","a","p","t","e","r">>

\* [int(ch) for ch in re.findall(r'chapter\s*(\d+)', s)], scanning from i
RECURSIVE ChapterNumbersFrom(_, _)
ChapterNumbersFrom(s, i) ==
    IF i + Len(Chapter) - 1 > Len(s) THEN <<>>
    ELSE IF SubSeq(s, i, i + Len(Chapter) - 1) = Chapter
         THEN LET d == SkipSpace(s, i + Len(Chapter))
                  r == ReadDigits(s, d, 0)
              IN  IF r.next > d
                  THEN <<r.value>> \o ChapterNumbersFrom(s, r.next)
                  ELSE ChapterNumbersFrom(s, i + 1)
         ELSE ChapterNumbersFrom(s, i + 1)

ChapterNumbers(s) == ChapterNumbersFrom(s, 1)

\* a listing in descending order
RECURSIVE DescendingList(_)
DescendingList(S) ==
    IF S = {} THEN <<>>
    ELSE LET m == CHOOSE x \in S : \A y \in S : x >= y
         IN  <<m>> \o DescendingList(S \ {m})

\* sorted(list(set_of_ints))
RECURSIVE SortedList(_)
SortedList(S) ==
    IF S = {} THEN <<>>
    ELSE LET m == CHOOSE x \in S : \A y \in S : x <= y
         IN  <<m>> \o SortedList(S \ {m})

-----------------------------------------------------------------------------
(* normalize_query and get_cache_key                                       *)

\* the if/elif chain of normalize_query, as an ordered rule table
NormalizeRules == <<
    [trigger |-> <<"w","h","a","t"," ","i","s">>,     terms |-> <<" ","d","e","f","i","n","e"," ","e","x","p","l","a","i","n"," ","m","e","a","n","i","n","g"," ","c","o","n","c","e","p","t">>],
    [trigger |-> <<"d","h","a","r","m","a">>,      terms |-> <<" ","d","u","t","y"," ","r","i","g","h","t","e","o","u","s","n","e","s","s"," ","m","o","r","a","l"," ","o","b","l","i","g","a","t","i","o","n">>],
    [trigger |-> <<"k","a","r","m","a">>,       terms |-> <<" ","a","c","t","i","o","n"," ","d","e","e","d","s"," ","c","o","n","s","e","q","u","e","n","c","e","s">>],
    [trigger |-> <<"m","o","k","s","h","a">>,      terms |-> <<" ","l","i","b","e","r","a","t","i","o","n"," ","f","r","e","e","d","o","m"," ","e","n","l","i","g","h","t","e","n","m","e","n","t">>],
    [trigger |-> <<"y","o","g","a">>,        terms |-> <<" ","d","i","s","c","i","p","l","i","n","e"," ","p","r","a","c","t","i","c","e"," ","u","n","i","o","n">>],
    [trigger |-> <<"b","h","a","k","t","i">>,      terms |-> <<" ","d","e","v","o","t","i","o","n"," ","l","o","v","e"," ","w","o","r","s","h","i","p">>],
    [trigger |-> <<"j","n","a","n","a">>,       terms |-> <<" ","k","n","o","w","l","e","d","g","e"," ","w","i","s","d","o","m"," ","u","n","d","e","r","s","t","a","n","d","i","n","g">>],
    [trigger |-> <<"k","a","r","m","a"," ","y","o","g","a">>,  terms |-> <<" ","a","c","t","i","o","n"," ","w","i","t","h","o","u","t"," ","a","t","t","a","c","h","m","e","n","t"," ","s","e","l","f","l","e","s","s"," ","s","e","r","v","i","c","e">>],
    [trigger |-> <<"b","h","a","k","t","i"," ","y","o","g","a">>, terms |-> <<" ","d","e","v","o","t","i","o","n","a","l"," ","s","e","r","v","i","c","e"," ","l","o","v","e"," ","f","o","r"," ","g","o","d">>],
    [trigger |-> <<"j","n","a","n","a"," ","y","o","g","a">>,  terms |-> <<" ","p","a","t","h"," ","o","f"," ","k","n","o","w","l","e","d","g","e"," ","w","i","s","d","o","m">>] >>

\* a normalization that applies every rule whose trigger matches, in order
normalize_every_rule(query) ==
    LET normalized == Lower(Strip(query))
        terms[i \in 0..Len(NormalizeRules)] ==
            IF i = 0 THEN <<>>
            ELSE IF Contains(normalized, NormalizeRules[i].trigger)
            THEN terms[i - 1] \o NormalizeRules[i].terms
            ELSE terms[i - 1]
    IN  normalized \o terms[Len(NormalizeRules)]

normalize_query(query) ==
    LET normalized == Lower(Strip(query))
        hits == { i \in 1..Len(NormalizeRules) :
                     Contains(normalized, NormalizeRules[i].trigger) }
    IN  IF hits = {} THEN normalized
        ELSE normalized \o
             NormalizeRules[CHOOSE i \in hits : \A j \in hits : i <= j].terms

-----------------------------------------------------------------------------
(* The queries, search results and generated texts the model runs with     *)

Q_BLANK    == <<" "," ">>
Q_DHARMA   == <<"w","h","a","t"," ","i","s"," ","d","h","a","r","m","a">>
Q_DHARMA_2 == <<" ","W","h","a","t"," ","i","s"," ","D","h","a","r","m","a"," ">>
Q_KARMA    == <<"k","a","r","m","a"," ","y","o","g","a">>
Q_CHAPTER  == <<"c","h","a","p","t","e","r"," ","9"," ","s","u","m","m","a","r","y">>
Q_MOKSHA   == <<"m","o","k","s","h","a">>
Q_CHAPTER_2 == <<"C","h","a","p","t","e","r"," ","2"," ","v","e","r","s","e"," ","4","7">>
Q_COMPARE  == <<"c","o","m","p","a","r","e"," ","c","h","a","p","t","e","r"," ","2"," ","a","n","d"," ","c","h","a","p","t","e","r"," ","9">>

\* the queries of the requests served one after another
Queries == { Q_BLANK, Q_DHARMA, Q_DHARMA_2, Q_KARMA, Q_CHAPTER }

\* the queries of the requests served on concurrent threads
ThreadQueries == { Q_DHARMA, Q_KARMA, Q_CHAPTER, Q_MOKSHA }

\* the queries the guardrail is called with on its own
GuardQueries == { Q_DHARMA, Q_CHAPTER, Q_CHAPTER_2, Q_COMPARE }

AllQueries == Queries \cup ThreadQueries \cup GuardQueries

\* chunks of the index, as the search returns them: id, score, text
Match(id, score, text) == [chunk_id |-> id, score |-> score, text |-> text]

T_DUTY  == <<"D","h","a","r","m","a"," ","i","s"," ","d","u","t","y">>
T_FIELD == <<"t","h","e"," ","f","i","e","l","d">>
T_YOGA  == <<"k","a","r","m","a"," ","y","o","g","a">>

MatchLists == {
    <<>>,
    << Match("c2", 45, T_FIELD), Match("c1", 20, T_DUTY) >>,
    << Match("c1", 50, T_DUTY), Match("c2", 30, T_FIELD) >>,
    << Match("c2", 80, T_FIELD), Match("c1", 78, T_DUTY), Match("c3", 60, T_YOGA) >> }

\* chunks the reranker is called with on its own: two that differ in the id
\* only, and one of lower similarity that shares more words with a query
RerankChunks ==
    { Match("c1", 50, T_DUTY), Match("c4", 50, T_DUTY), Match("c2", 50, T_FIELD),
      Match("c5", 45, T_DUTY), Match("c3", 60, T_YOGA) }

\* a full page of the search, top_k = 8 matches, best first
TopMatches ==
    << Match("k1", 95, T_FIELD), Match("k2", 90, T_YOGA), Match("k3", 85, T_FIELD),
       Match("k4", 80, T_DUTY), Match("k5", 75, T_FIELD), Match("k6", 70, T_DUTY),
       Match("k7", 65, T_YOGA), Match("k8", 60, T_FIELD) >>

\* generated texts, as the fragments the generator produces in order
Answers == { <<"f1", "f2">> }

\* what the guardrail's index sample can find, and its broader search
IndexStates == { {}, {1, 2, 3}, {1, 2, 3, 9} }
BroaderFinds == { {}, {1, 2} }

Faults == { "none", "discover", "embed", "search", "generate" }

\* str(e) of the exception a failing collaborator raises
E_TIMEOUT == "Connection to pinecone timed out"
E_API_KEY == "Incorrect API key provided: sk-live-1234"

\* the functions of the query alone, tabulated over the queries
NormalizedQuery == [q \in AllQueries |-> normalize_query(q)]
StrippedQuery == [q \in AllQueries |-> Strip(q)]
LoweredChapters == [q \in AllQueries |-> ChapterNumbers(Lower(q))]
QueryWords == [q \in AllQueries |-> Words(Lower(q))]

\* hashlib.md5(normalized.encode()).hexdigest(): the digest is taken to be
\* collision free, so the key is identified with the text that is hashed
get_cache_key(query) == NormalizedQuery[query]

-----------------------------------------------------------------------------
(* The response cache: response_cache, get_cached_response, cache_response *)

\* CACHE_TTL = 300
CACHE_TTL == 300

\* the size the cache is cut back to: `if len(response_cache) > 200`.
\* The model runs with a smaller limit so that the overflow is reached.
MAX_CACHE_SIZE == 2

\* Python's None
None == [none |-> TRUE]

\* position of `key` in the dict (0 when absent)
KeyIndex(cache, key) ==
    IF \E i \in 1..Len(cache) : cache[i].key = key
    THEN CHOOSE i \in 1..Len(cache) : cache[i].key = key
    ELSE 0

\* response_cache[key] = value: an existing key keeps its place in the
\* iteration order, a new key goes last
DictSet(cache, key, response, timestamp) ==
    LET entry == [key |-> key, response |-> response, timestamp |-> timestamp]
        i == KeyIndex(cache, key)
    IN  IF i = 0 THEN Append(cache, entry) ELSE [cache EXCEPT ![i] = entry]

\* del response_cache[key], for the key at position i
DictDel(cache, i) == SubSeq(cache, 1, i - 1) \o SubSeq(cache, i + 1, Len(cache))

\* the last key in iteration order, whatever its timestamp
LastInserted(cache) == Len(cache)

\* min(response_cache.keys(), key=lambda k: response_cache[k]["timestamp"]):
\* min returns the first of the minimal keys in iteration order
OldestIndex(cache) ==
    CHOOSE i \in 1..Len(cache) :
        \A j \in 1..Len(cache) :
            /\ cache[i].timestamp <= cache[j].timestamp
            /\ (cache[j].timestamp = cache[i].timestamp => i <= j)

\* a TTL test that still accepts an entry of age CACHE_TTL
FreshInclusive(entry, t) == t - entry.timestamp <= CACHE_TTL

\* the TTL test of get_cached_response
Fresh(entry, t) == t - entry.timestamp < CACHE_TTL

\* a lookup that finds nothing, whatever the cache holds
never_cached(cache, query, t) == [response |-> None, cache |-> cache]

\* a lookup that restamps the entry it returns
get_and_touch(cache, query, t) ==
    LET i == KeyIndex(cache, get_cache_key(query))
    IN  IF i = 0 THEN [response |-> None, cache |-> cache]
        ELSE IF t - cache[i].timestamp < CACHE_TTL
             THEN [response |-> cache[i].response,
                   cache |-> [cache EXCEPT ![i].timestamp = t]]
             ELSE [response |-> None, cache |-> DictDel(cache, i)]

\* get_cached_response(query) at time t: what it returns and the cache it leaves
get_cached_response(cache, query, t) ==
    LET i == KeyIndex(cache, get_cache_key(query))
    IN  IF i = 0 THEN [response |-> None, cache |-> cache]
        ELSE IF Fresh(cache[i], t)
             THEN [response |-> cache[i].response, cache |-> cache]
             ELSE [response |-> None, cache |-> DictDel(cache, i)]

\* the overflow test of cache_response
Overflow(cache) == Len(cache) > MAX_CACHE_SIZE

\* a cache_response that stores nothing
no_store(cache, query, response, t) == cache

\* cache_response(query, response) at time t: the cache it leaves
cache_response(cache, query, response, t) ==
    LET inserted == DictSet(cache, get_cache_key(query), response, t)
    IN  IF Overflow(inserted)
        THEN DictDel(inserted, OldestIndex(inserted))
        ELSE inserted

\* clear_cache()
clear_cache(cache) == <<>>

-----------------------------------------------------------------------------
(* analyze_query_intent, validate_query_against_available_content,         *)
(* rerank_chunks_fast                                                      *)

summary_keywords == { <<"s","u","m","m","a","r","y">>, <<"s","u","m","m","a","r","i","z","e">>, <<"o","v","e","r","v","i","e","w">>, <<"b","r","i","e","f">>,
                      <<"m","a","i","n"," ","p","o","i","n","t","s">>, <<"k","e","y"," ","p","o","i","n","t","s">> }
analysis_keywords == { <<"a","n","a","l","y","z","e">>, <<"a","n","a","l","y","s","i","s">>, <<"e","x","p","l","a","i","n">>, <<"d","i","s","c","u","s","s">>,
                       <<"d","e","s","c","r","i","b","e">> }
learning_keywords == { <<"l","e","a","r","n">>, <<"t","e","a","c","h","i","n","g","s">>, <<"l","e","s","s","o","n","s">>, <<"i","n","s","i","g","h","t","s">>,
                       <<"w","i","s","d","o","m">> }
structure_keywords == { <<"o","u","t","l","i","n","e">>, <<"s","t","r","u","c","t","u","r","e">>, <<"o","r","g","a","n","i","z","a","t","i","o","n">>,
                        <<"s","e","c","t","i","o","n","s">> }

analyze_query_intent(query) ==
    LET query_lower == Lower(query)
        query_type ==
            IF ContainsAny(query_lower, summary_keywords) THEN "summary"
            ELSE IF ContainsAny(query_lower, analysis_keywords) THEN "analysis"
            ELSE IF ContainsAny(query_lower, learning_keywords) THEN "learning"
            ELSE IF ContainsAny(query_lower, structure_keywords) THEN "structure"
            ELSE "general"
    IN  [query_type |-> query_type,
         is_structured_request |-> query_type # "general",
         chapter_numbers |-> ChapterNumbers(query_lower),
         needs_comprehensive_context |->
             query_type \in {"summary", "analysis", "learning", "structure"}]

QueryIntent == [q \in AllQueries |-> analyze_query_intent(q)]

\* The collaborators' part in one request, env:
\*   fault    which collaborator call raises: "none", "discover" (the index
\*            sample of the guardrail), "embed", "search" or "generate"
\*   broader  the chapters the guardrail's broader search finds
\*   matches  results.matches of the nearest-neighbour search, best first
\*   answer   the text the generator produces, as its fragments in order
\*   text     str(e) of the exception the failing call raises
\* `chapters` is what the guardrail's first index sample finds.

\* a guardrail that blocks every query naming a chapter it cannot confirm
validate_failing_closed(query, chapters, env) ==
    LET chapter_matches == LoweredChapters[query]
        available_chapters == IF chapters = {} THEN env.broader ELSE chapters
        unavailable_chapters ==
            SelectSeq(chapter_matches, LAMBDA ch : ch \notin available_chapters)
        raised == \/ env.fault = "discover"
                  \/ chapters = {} /\ env.fault = "embed"
    IN  IF chapter_matches = <<>>
        THEN [is_valid |-> TRUE, discover |-> 0, embed |-> 0, found |-> None]
        ELSE IF raised \/ unavailable_chapters # <<>>
        THEN [is_valid |-> FALSE,
              found |-> IF raised THEN None ELSE [chapters |-> available_chapters],
              available_chapters |-> SortedList(available_chapters),
              unavailable_chapters |-> unavailable_chapters,
              message |-> <<"Chapters ", unavailable_chapters,
                            " are not available in the uploaded content. Available chapters: ",
                            SortedList(available_chapters)>>,
              discover |-> IF chapters = {} /\ ~raised THEN 2 ELSE 1,
              embed |-> IF chapters = {} /\ env.fault # "discover" THEN 1 ELSE 0]
        ELSE [is_valid |-> TRUE,
              found |-> [chapters |-> available_chapters],
              discover |-> IF chapters = {} THEN 2 ELSE 1,
              embed |-> IF chapters = {} THEN 1 ELSE 0]

\* a guardrail that blocks only when none of the named chapters is available
validate_blocking_all_unavailable(query, chapters, env) ==
    LET chapter_matches == LoweredChapters[query]
        available_chapters == IF chapters = {} THEN env.broader ELSE chapters
        unavailable_chapters ==
            SelectSeq(chapter_matches, LAMBDA ch : ch \notin available_chapters)
        known == /\ chapter_matches # <<>>
                 /\ env.fault # "discover"
                 /\ ~(chapters = {} /\ env.fault = "embed")
    IN  IF known /\ unavailable_chapters = chapter_matches /\ available_chapters # {}
        THEN [is_valid |-> FALSE,
              found |-> [chapters |-> available_chapters],
              available_chapters |-> SortedList(available_chapters),
              unavailable_chapters |-> unavailable_chapters,
              message |-> <<"Chapters ", unavailable_chapters,
                            " are not available in the uploaded content. Available chapters: ",
                            SortedList(available_chapters)>>,
              discover |-> IF chapters = {} THEN 2 ELSE 1,
              embed |-> IF chapters = {} THEN 1 ELSE 0]
        ELSE [is_valid |-> TRUE,
              found |-> IF known THEN [chapters |-> available_chapters] ELSE None,
              discover |-> IF chapter_matches = <<>> THEN 0
                           ELSE IF chapters = {} /\ env.fault # "discover" THEN 2 ELSE 1,
              embed |-> IF chapter_matches # <<>> /\ chapters = {} /\ env.fault # "discover"
                        THEN 1 ELSE 0]

\* validate_query_against_available_content: the verdict, with the index
\* queries (discover) and embedding calls it made and the available_chapters
\* it found (None when it did not get to know them)
validate_query_against_available_content(query, chapters, env) ==
    LET chapter_matches == LoweredChapters[query]
        available_chapters == IF chapters = {} THEN env.broader ELSE chapters
        unavailable_chapters ==
            SelectSeq(chapter_matches, LAMBDA ch : ch \notin available_chapters)
    IN  IF chapter_matches = <<>>
        THEN [is_valid |-> TRUE, discover |-> 0, embed |-> 0, found |-> None]
        ELSE IF env.fault = "discover"
        THEN [is_valid |-> TRUE, discover |-> 1, embed |-> 0, found |-> None]
        ELSE IF chapters = {} /\ env.fault = "embed"
        THEN [is_valid |-> TRUE, discover |-> 1, embed |-> 1, found |-> None]
        ELSE IF unavailable_chapters # <<>> /\ available_chapters # {}
        THEN [is_valid |-> FALSE,
              found |-> [chapters |-> available_chapters],
              available_chapters |-> SortedList(available_chapters),
              unavailable_chapters |-> unavailable_chapters,
              message |-> <<"Chapters ", unavailable_chapters,
                            " are not available in the uploaded content. Available chapters: ",
                            SortedList(available_chapters)>>,
              discover |-> IF chapters = {} THEN 2 ELSE 1,
              embed |-> IF chapters = {} THEN 1 ELSE 0]
        ELSE [is_valid |-> TRUE,
              found |-> [chapters |-> available_chapters],
              discover |-> IF chapters = {} THEN 2 ELSE 1,
              embed |-> IF chapters = {} THEN 1 ELSE 0]

\* combined_score of calculate_relevance_score_fast, times 12000:
\* 0.7 * similarity + 0.3 * keyword_overlap, similarity in hundredths
rerank_score(query, chunk) ==
    LET query_words == QueryWords[query]
        text_words == Words(Lower(chunk.text))
        n == Cardinality(query_words)
    IN  84 * chunk.score +
        (IF n = 0 THEN 0
         ELSE (3600 * Cardinality(query_words \cap text_words)) \div n)

\* a sort by descending score that puts a chunk before its equals
RECURSIVE SortedBeforeEquals(_)
SortedBeforeEquals(chunks) ==
    IF chunks = <<>> THEN <<>>
    ELSE LET init == SortedBeforeEquals(SubSeq(chunks, 1, Len(chunks) - 1))
             x == chunks[Len(chunks)]
             p == Cardinality({ i \in 1..Len(init) :
                                   init[i].rerank_score > x.rerank_score })
         IN  SubSeq(init, 1, p) \o <<x>> \o SubSeq(init, p + 1, Len(init))

\* sorted(reranked, key=rerank_score, reverse=True): a stable sort, so
\* chunks of equal score keep their order
RECURSIVE SortedByRerank(_)
SortedByRerank(chunks) ==
    IF chunks = <<>> THEN <<>>
    ELSE LET init == SortedByRerank(SubSeq(chunks, 1, Len(chunks) - 1))
             x == chunks[Len(chunks)]
             p == Cardinality({ i \in 1..Len(init) :
                                   init[i].rerank_score >= x.rerank_score })
         IN  SubSeq(init, 1, p) \o <<x>> \o SubSeq(init, p + 1, Len(init))

\* rerank_score tabulated over the queries and chunks of the model
RerankScore ==
    [q \in AllQueries |->
        [c \in RerankChunks \cup { TopMatches[i] : i \in 1..Len(TopMatches) } \cup
                UNION { { m[i] : i \in 1..Len(m) } : m \in MatchLists } |->
            rerank_score(q, c)]]

rerank_chunks_fast(query, chunks) ==
    SortedByRerank([i \in 1..Len(chunks) |->
        [chunk_id |-> chunks[i].chunk_id, score |-> chunks[i].score,
         text |-> chunks[i].text,
         rerank_score |-> RerankScore[query][chunks[i]]]])

\* seq[:n]
Take(seq, n) == SubSeq(seq, 1, IF n < Len(seq) THEN n ELSE Len(seq))

-----------------------------------------------------------------------------
(* process_chat_query: the synchronous pipeline                            *)

NoCalls == [discover |-> 0, embed |-> 0, search |-> 0, generate |-> 0]

\* what a finished request is recorded as: the path it took (outcome), the
\* HTTP status, the body, the collaborator calls it made, the number of
\* cache_response calls, for a streamed reply the events it sent, and the
\* clock and the cache the handler (for a streamed answer: the end of the
\* generator) started from, results.matches of its search (empty when no
\* search returned) and the available chapters its guardrail found
Finished(kind, query, outcome, status, body, calls, cache_writes, events, t, cache) ==
    [kind |-> kind, query |-> query, outcome |-> outcome, status |-> status,
     body |-> body, calls |-> calls, cache_writes |-> cache_writes,
     events |-> events, time |-> t, cache_before |-> cache, matches |-> <<>>,
     found |-> None]

\* results = pinecone_client.index.query(...): the request got `matches`
Searched(result, matches) == [result EXCEPT !.matches = matches]

\* validation_result: the request's guardrail found these available_chapters
Validated(result, found) == [result EXCEPT !.found = found]

\* raise HTTPException(status_code=500, detail=f"Error processing query: {str(e)}")
ServerError(e) == [detail |-> <<"Error processing query: ", e>>]

\* str() of HTTPException(status_code=400, detail="Query cannot be empty")
EmptyQueryError == "400: Query cannot be empty"

NoInformation ==
    <<"I don't have information about this topic, Please try rephrasing your question or ask about a different topic.">>

\* the body returned when validation fails
BlockedResponse(validation) ==
    [answer |-> validation.message,
     confidence |-> 0,
     sources |-> <<>>,
     available_chapters |-> validation.available_chapters]

NoKnowledgeResponse(confidence) ==
    [answer |-> NoInformation, confidence |-> confidence, sources |-> <<>>]

\* min_score = 0.3 if intent["needs_comprehensive_context"] else 0.5
min_score(intent) == IF intent.needs_comprehensive_context THEN 30 ELSE 50

\* a context of the same size for every intent
max_chunks_same(intent) == 5

\* max_chunks = 8 if intent["needs_comprehensive_context"] else 5
max_chunks(intent) == IF intent.needs_comprehensive_context THEN 8 ELSE 5

\* `if match.score > min_score`
Retained(match, intent) == match.score > min_score(intent)

\* the loop `for match in results.matches: ... all_matches.append({...})`:
\* every match above the threshold, in the order of the search result
all_matches(matches, intent) ==
    SelectSeq(matches, LAMBDA m : Retained(m, intent))

\* "high" if rerank_score > 0.7 else "medium" if rerank_score > 0.5 else "low"
context_quality(score) ==
    IF score > 8400 THEN "high" ELSE IF score > 6000 THEN "medium" ELSE "low"

\* context_chunks = reranked_chunks[:max_chunks]
context_chunks(reranked_chunks, intent) ==
    Take(reranked_chunks, max_chunks(intent))

\* context_parts: f"Source {i} (Score: {chunk['score']:.2f}): {chunk['text']}"
\* for i, chunk in enumerate(context_chunks, 1)
context_parts(chunks) ==
    [i \in 1..Len(chunks) |->
        [source |-> i, score |-> chunks[i].score, text |-> chunks[i].text]]

\* the response dict built after generation
AnswerResponse(answer, reranked_chunks, intent) ==
    [answer |-> answer,
     confidence |-> reranked_chunks[1].rerank_score,
     sources |-> Take(context_chunks(reranked_chunks, intent), 3),
     total_sources_found |-> Len(reranked_chunks),
     context_quality |-> context_quality(reranked_chunks[1].rerank_score),
     response_type |-> "comprehensive"]

\* `if not query.strip()` (`if not user_query.strip()` in chat_post_stream)
IsBlank(query) == StrippedQuery[query] = <<>>

\* process_chat_query(query) at time t: [result, cache]
process_chat_query(query, cache, t, chapters, env) ==
    LET done(outcome, status, body, calls, writes, c) ==
            [result |-> Searched(
                            Finished("sync", query, outcome, status, body, calls,
                                     writes, <<>>, t, cache),
                            IF calls.search = 1 /\ env.fault # "search"
                            THEN env.matches ELSE <<>>),
             cache |-> c]
    IN
    IF IsBlank(query)
    THEN done("http_error", 500, ServerError(EmptyQueryError), NoCalls, 0, cache)
    ELSE
    LET got == get_cached_response(cache, query, t) IN
    IF got.response # None
    THEN done("cache_hit", 200, got.response, NoCalls, 0, got.cache)
    ELSE
    LET intent == QueryIntent[query]
        validation == validate_query_against_available_content(query, chapters, env)
        c0 == [NoCalls EXCEPT !.discover = validation.discover,
                              !.embed = validation.embed]
        c1 == [c0 EXCEPT !.embed = @ + 1]
        c2 == [c1 EXCEPT !.search = 1]
        c3 == [c2 EXCEPT !.generate = 1]
        matches == env.matches
        reranked_chunks == rerank_chunks_fast(query, all_matches(matches, intent))
        response == AnswerResponse(env.answer, reranked_chunks, intent)
        checked(outcome, status, body, calls, writes, c) ==
            LET d == done(outcome, status, body, calls, writes, c)
            IN  [d EXCEPT !.result = Validated(d.result, validation.found)]
    IN
    IF ~validation.is_valid
    THEN checked("blocked", 200, BlockedResponse(validation), c0, 0, got.cache)
    ELSE IF env.fault = "embed"
    THEN checked("http_error", 500, ServerError(env.text), c1, 0, got.cache)
    ELSE IF env.fault = "search"
    THEN checked("http_error", 500, ServerError(env.text), c2, 0, got.cache)
    ELSE IF matches = <<>> \/ matches[1].score < min_score(intent)
    THEN checked("no_knowledge", 200,
              NoKnowledgeResponse(IF matches # <<>> THEN matches[1].score ELSE 0),
              c2, 0, got.cache)
    ELSE IF reranked_chunks = <<>>
    THEN checked("no_knowledge", 200, NoKnowledgeResponse(0), c2, 0, got.cache)
    ELSE IF env.fault = "generate"
    THEN checked("http_error", 500, ServerError(env.text), c3, 0, got.cache)
    ELSE checked("answered", 200, response, c3, 1,
              cache_response(got.cache, query, response, t))

-----------------------------------------------------------------------------
(* chat_post_stream and its generator process_and_stream                   *)

\* no generator is being consumed
Idle == [pc |-> "idle"]

\* the event the generator's `except Exception as e` sends
ErrorEvent(e) ==
    [error |-> <<"Error processing query: ", e>>, is_streaming |-> FALSE]

\* chunk_response
ChunkEvent(chunk, full_answer) ==
    [chunk |-> chunk, partial_answer |-> full_answer, is_streaming |-> TRUE]

\* final_response
FinalResponse(full_answer, reranked_chunks, intent) ==
    [answer |-> full_answer,
     confidence |-> reranked_chunks[1].rerank_score,
     sources |-> Take(Take(reranked_chunks, max_chunks(intent)), 3),
     total_sources_found |-> Len(reranked_chunks),
     context_quality |-> context_quality(reranked_chunks[1].rerank_score),
     response_type |-> "comprehensive",
     is_streaming |-> FALSE]

\* chat_post_stream(request) at time t, run up to the generator's first
\* fragment: [result, stream, cache]. result is None while the generator is
\* still producing, and stream is then the generator's state.
chat_post_stream(query, cache, t, chapters, env) ==
    LET done(outcome, status, body, calls, events, c) ==
            [result |-> Searched(
                            Finished("stream", query, outcome, status, body, calls,
                                     0, events, t, cache),
                            IF calls.search = 1 /\ env.fault # "search"
                            THEN env.matches ELSE <<>>),
             stream |-> Idle,
             cache |-> c]
    IN
    IF IsBlank(query)
    THEN done("http_error", 500, ServerError(EmptyQueryError), NoCalls, <<>>, cache)
    ELSE
    LET got == get_cached_response(cache, query, t) IN
    IF got.response # None
    THEN done("cache_hit", 200, None, NoCalls, <<got.response>>, got.cache)
    ELSE
    LET intent == QueryIntent[query]
        validation == validate_query_against_available_content(query, chapters, env)
        c0 == [NoCalls EXCEPT !.discover = validation.discover,
                              !.embed = validation.embed]
        c1 == [c0 EXCEPT !.embed = @ + 1]
        c2 == [c1 EXCEPT !.search = 1]
        c3 == [c2 EXCEPT !.generate = 1]
        matches == env.matches
        reranked_chunks == rerank_chunks_fast(query, all_matches(matches, intent))
        checked(outcome, status, body, calls, events, c) ==
            LET d == done(outcome, status, body, calls, events, c)
            IN  [d EXCEPT !.result = Validated(d.result, validation.found)]
    IN
    IF ~validation.is_valid
    THEN checked("blocked", 200, None, c0, <<BlockedResponse(validation)>>, got.cache)
    ELSE IF env.fault = "embed"
    THEN checked("stream_error", 200, None, c1,
              <<ErrorEvent(env.text)>>, got.cache)
    ELSE IF env.fault = "search"
    THEN checked("stream_error", 200, None, c2,
              <<ErrorEvent(env.text)>>, got.cache)
    ELSE IF matches = <<>> \/ matches[1].score < min_score(intent)
    THEN checked("no_knowledge", 200, None, c2,
              <<NoKnowledgeResponse(IF matches # <<>> THEN matches[1].score ELSE 0)>>,
              got.cache)
    ELSE IF reranked_chunks = <<>>
    THEN checked("no_knowledge", 200, None, c2, <<NoKnowledgeResponse(0)>>, got.cache)
    ELSE [result |-> None,
          stream |-> [pc |-> "generating", query |-> query, intent |-> intent,
                      matches |-> matches, found |-> validation.found,
                      reranked_chunks |-> reranked_chunks,
                      full_answer |-> <<>>, pending |-> env.answer,
                      text |-> env.text,
                      events |-> <<>>, calls |-> c3],
          cache |-> got.cache]

\* a turn that sends the fragment without accumulating what came before
stream_chunk_alone(gen) ==
    LET chunk == Head(gen.pending)
    IN  [gen EXCEPT !.full_answer = gen.full_answer \o <<chunk>>,
                    !.pending = Tail(gen.pending),
                    !.events = Append(gen.events, ChunkEvent(chunk, <<chunk>>))]

\* one turn of `for chunk in llm.generate_answer_stream(...)`: the next
\* fragment is added to full_answer and sent
stream_chunk(gen) ==
    LET chunk == Head(gen.pending)
        full_answer == gen.full_answer \o <<chunk>>
    IN  [gen EXCEPT !.full_answer = full_answer,
                    !.pending = Tail(gen.pending),
                    !.events = Append(gen.events, ChunkEvent(chunk, full_answer))]

\* the generator is exhausted: the final response is cached and sent
\* a record of the generator's request carries what its handler observed
Generated(result, gen) == Validated(Searched(result, gen.matches), gen.found)

stream_finish(gen, cache, t) ==
    LET final_response ==
            FinalResponse(gen.full_answer, gen.reranked_chunks, gen.intent)
    IN  [result |-> Generated(
                        Finished("stream", gen.query, "answered", 200, None,
                                 gen.calls, 1, Append(gen.events, final_response),
                                 t, cache),
                        gen),
         cache |-> cache_response(cache, gen.query, final_response, t)]

\* a failure handler that caches what was generated so far
stream_fail_caching(gen, cache, t) ==
    [result |-> Generated(
                    Finished("stream", gen.query, "stream_error", 200, None,
                             gen.calls, 1,
                             Append(gen.events, ErrorEvent(gen.text)),
                             t, cache),
                    gen),
     cache |-> cache_response(cache, gen.query,
                              FinalResponse(gen.full_answer, gen.reranked_chunks,
                                            gen.intent), t)]

\* the generator raises: `except Exception as e` sends the error event
stream_fail(gen, cache, t) ==
    [result |-> Generated(
                    Finished("stream", gen.query, "stream_error", 200, None,
                             gen.calls, 0,
                             Append(gen.events, ErrorEvent(gen.text)),
                             t, cache),
                    gen),
     cache |-> cache]

\* a close that caches what was generated so far
stream_close_caching(gen, cache, t) ==
    [result |-> Generated(
                    Finished("stream", gen.query, "disconnected", 200, None,
                             gen.calls, 1, gen.events, t, cache),
                    gen),
     cache |-> cache_response(cache, gen.query,
                              FinalResponse(gen.full_answer, gen.reranked_chunks,
                                            gen.intent), t)]

\* the caller disconnects: the suspended generator is closed (GeneratorExit
\* is no Exception, the handler does not run)
stream_close(gen, cache, t) ==
    [result |-> Generated(
                    Finished("stream", gen.query, "disconnected", 200, None,
                             gen.calls, 0, gen.events, t, cache),
                    gen),
     cache |-> cache]

-----------------------------------------------------------------------------
(* Specification Spec: requests to app/routers/chat.py served one after    *)
(* another; a streamed reply is consumed step by step.                     *)

\* the clock moves in steps of half the TTL, at most MaxTicks times
TickStep == CACHE_TTL \div 2
MaxTicks == 2

NoRequest == Finished("none", <<>>, "none", 0, None, NoCalls, 0, <<>>, 0, <<>>)

\* the collaborator behaviours tried for a request: every search result
\* with no fault, and every fault; a single one for a request that calls no
\* collaborator (a blank query, a cache hit)
Envs(q, cache, t, chapters) ==
    LET broader == IF chapters = {} /\ LoweredChapters[q] # <<>>
                   THEN BroaderFinds ELSE {{}}
        full == { m \in MatchLists : Len(m) = 3 }
    IN  IF \/ IsBlank(q)
           \/ get_cached_response(cache, q, t).response # None
        THEN [fault : {"none"}, broader : {{}}, matches : full, answer : Answers,
              text : {E_TIMEOUT}]
        ELSE [fault : {"none"}, broader : broader, matches : MatchLists,
              text : {E_TIMEOUT},
              answer : Answers]
             \cup
             [fault : Faults \ {"none"}, broader : broader, matches : full,
              text : {E_TIMEOUT},
              answer : Answers]

NoThreads == <<>>

Init ==
    /\ now = 0
    /\ response_cache = <<>>
    /\ indexed_chapters = {1, 2, 3}
    /\ last = NoRequest
    /\ stream = Idle
    /\ threads = NoThreads
    /\ conversations = <<>>
    /\ messages_table = <<>>
    /\ enabled = FALSE
    /\ next_id = 0
    /\ embedding_cache = <<>>
    /\ embed_calls = <<>>

others == <<threads, conversations, messages_table, enabled, next_id, embedding>>

\* time passes
Tick ==
    /\ now < MaxTicks * TickStep
    /\ now' = now + TickStep
    /\ UNCHANGED <<response_cache, indexed_chapters, last, stream, others>>

\* DELETE /chat/cache/clear
ClearCache ==
    /\ response_cache' = clear_cache(response_cache)
    /\ last' = NoRequest
    /\ UNCHANGED <<now, indexed_chapters, stream, others>>

\* the index is re-ingested: the guardrail's sample finds other chapters
IndexUpdate ==
    /\ \E chapters \in IndexStates \ {indexed_chapters} :
           indexed_chapters' = chapters
    /\ last' = NoRequest
    /\ UNCHANGED <<now, response_cache, stream, others>>

\* POST /chat/ (and GET /chat/): process_chat_query(query)
ChatPost ==
    /\ stream = Idle
    /\ \E q \in Queries : \E env \in Envs(q, response_cache, now, indexed_chapters) :
        LET r == process_chat_query(q, response_cache, now, indexed_chapters, env)
        IN  /\ last' = r.result
            /\ response_cache' = r.cache
    /\ UNCHANGED <<now, indexed_chapters, stream, others>>

\* POST /chat/stream, up to the generator's first fragment
ChatPostStream ==
    /\ stream = Idle
    /\ \E q \in Queries : \E env \in Envs(q, response_cache, now, indexed_chapters) :
        /\ env.fault # "generate"
        /\ LET r == chat_post_stream(q, response_cache, now, indexed_chapters, env)
           IN  /\ last' = IF r.result = None THEN NoRequest ELSE r.result
               /\ stream' = r.stream
               /\ response_cache' = r.cache
    /\ UNCHANGED <<now, indexed_chapters, others>>

\* the generator produces a fragment
StreamChunk ==
    /\ stream.pc = "generating"
    /\ stream.pending # <<>>
    /\ stream' = stream_chunk(stream)
    /\ last' = NoRequest
    /\ UNCHANGED <<now, response_cache, indexed_chapters, others>>

\* the generator ends
StreamFinish ==
    /\ stream.pc = "generating"
    /\ stream.pending = <<>>
    /\ LET r == stream_finish(stream, response_cache, now)
       IN  /\ last' = r.result
           /\ response_cache' = r.cache
    /\ stream' = Idle
    /\ UNCHANGED <<now, indexed_chapters, others>>

\* the generator raises
StreamFail ==
    /\ stream.pc = "generating"
    /\ LET r == stream_fail(stream, response_cache, now)
       IN  /\ last' = r.result
           /\ response_cache' = r.cache
    /\ stream' = Idle
    /\ UNCHANGED <<now, indexed_chapters, others>>

\* the caller goes away
StreamDisconnect ==
    /\ stream.pc = "generating"
    /\ LET r == stream_close(stream, response_cache, now)
       IN  /\ last' = r.result
           /\ response_cache' = r.cache
    /\ stream' = Idle
    /\ UNCHANGED <<now, indexed_chapters, others>>

Next ==
    \/ Tick
    \/ ClearCache
    \/ IndexUpdate
    \/ ChatPost
    \/ ChatPostStream
    \/ StreamChunk
    \/ StreamFinish
    \/ StreamFail
    \/ StreamDisconnect

Spec == Init /\ [][Next]_vars

-----------------------------------------------------------------------------
(* Specification SpecConc: process_chat_query on executor threads, and     *)
(* clear_cache, sharing response_cache without a lock. A step is one       *)
(* operation on the dict or one test of a thread.                          *)

NumThreads == 2
Threads == 1..NumThreads

\* requests a thread serves
MaxCalls == 2

IdleThread ==
    [pc |-> "idle", query |-> <<>>, snapshot |-> {}, oldest_key |-> <<>>,
     served |-> 0, reply |-> None]

\* what the pipeline computes for a query on a cache miss
Computed(q) ==
    process_chat_query(q, <<>>, 0, {1, 2, 3, 9},
        [fault |-> "none", broader |-> {},
         matches |-> << Match("c2", 80, T_FIELD), Match("c1", 78, T_DUTY),
                        Match("c3", 60, T_YOGA) >>,
         answer |-> <<"f1", "f2">>]).result.body

ComputedResponse == [q \in ThreadQueries |-> Computed(q)]

\* the cache is full, its older entry has reached CACHE_TTL
InitConc ==
    /\ now = CACHE_TTL
    /\ response_cache =
          << [key |-> get_cache_key(Q_DHARMA),
              response |-> ComputedResponse[Q_DHARMA], timestamp |-> 0],
             [key |-> get_cache_key(Q_KARMA),
              response |-> ComputedResponse[Q_KARMA], timestamp |-> TickStep] >>
    /\ indexed_chapters = {1, 2, 3}
    /\ last = NoRequest
    /\ stream = Idle
    /\ threads = [t \in Threads |-> IdleThread]
    /\ conversations = <<>>
    /\ messages_table = <<>>
    /\ enabled = FALSE
    /\ next_id = 0
    /\ embedding_cache = <<>>
    /\ embed_calls = <<>>

Stopped(t) == threads[t].pc \in {"idle", "done", "failed"}

ThreadKey(t) == get_cache_key(threads[t].query)

\* the thread's step: its new pc, with the fields it sets
Goto(t, pc) == [threads EXCEPT ![t].pc = pc]
Return(t, reply) == [threads EXCEPT ![t].pc = "done", ![t].reply = reply]
\* an exception: `except Exception as e` of process_chat_query answers 500
Raise(t) == [threads EXCEPT ![t].pc = "failed"]

unthreaded ==
    <<now, indexed_chapters, last, stream, conversations, messages_table,
      enabled, next_id, embedding>>

\* run_in_executor(None, process_chat_query, query)
ThreadCall ==
    \E t \in Threads : \E q \in ThreadQueries :
        /\ Stopped(t)
        /\ threads[t].served < MaxCalls
        /\ threads' = [threads EXCEPT ![t] =
               [IdleThread EXCEPT !.pc = "g_test", !.query = q,
                                  !.served = threads[t].served + 1]]
        /\ UNCHANGED <<response_cache, unthreaded>>

\* get_cached_response: `if cache_key in response_cache`
GetTest ==
    \E t \in Threads :
        /\ threads[t].pc = "g_test"
        /\ threads' = IF KeyIndex(response_cache, ThreadKey(t)) # 0
                       THEN Goto(t, "g_read") ELSE Goto(t, "p_insert")
        /\ UNCHANGED <<response_cache, unthreaded>>

\* get_cached_response: `cached_data = response_cache[cache_key]` and the
\* TTL test on cached_data
GetRead ==
    \E t \in Threads :
        /\ threads[t].pc = "g_read"
        /\ LET i == KeyIndex(response_cache, ThreadKey(t))
           IN  threads' = IF i = 0 THEN Raise(t)
                          ELSE IF Fresh(response_cache[i], now)
                          THEN Return(t, response_cache[i].response)
                          ELSE Goto(t, "g_del")
        /\ UNCHANGED <<response_cache, unthreaded>>

\* get_cached_response: `del response_cache[cache_key]`
GetDel ==
    \E t \in Threads :
        /\ threads[t].pc = "g_del"
        /\ LET i == KeyIndex(response_cache, ThreadKey(t))
           IN  IF i = 0
               THEN threads' = Raise(t) /\ UNCHANGED response_cache
               ELSE /\ threads' = Goto(t, "p_insert")
                    /\ response_cache' = DictDel(response_cache, i)
        /\ UNCHANGED unthreaded

\* cache_response: `response_cache[cache_key] = {...}`, after the pipeline
PutInsert ==
    \E t \in Threads :
        /\ threads[t].pc = "p_insert"
        /\ response_cache' = DictSet(response_cache, ThreadKey(t),
                                     ComputedResponse[threads[t].query], now)
        /\ threads' = Goto(t, "p_len")
        /\ UNCHANGED unthreaded

\* cache_response: `if len(response_cache) > 200`, and the start of the
\* iteration over response_cache.keys()
PutLen ==
    \E t \in Threads :
        /\ threads[t].pc = "p_len"
        /\ threads' = IF Overflow(response_cache)
                       THEN [threads EXCEPT ![t].pc = "p_scan",
                                            ![t].snapshot = { response_cache[i].key :
                                                i \in 1..Len(response_cache) }]
                       ELSE Return(t, ComputedResponse[threads[t].query])
        /\ UNCHANGED <<response_cache, unthreaded>>

\* cache_response: the end of `min(response_cache.keys(), key=...)`. A dict
\* that changed size under the iteration raises RuntimeError; one whose
\* keys changed at the same size raises (RuntimeError, or KeyError in the
\* key function) or yields a key of the dict
PutScan ==
    \E t \in Threads :
        /\ threads[t].pc = "p_scan"
        /\ LET keys == { response_cache[i].key : i \in 1..Len(response_cache) }
               found == [threads EXCEPT
                            ![t].pc = "p_del",
                            ![t].oldest_key =
                                response_cache[OldestIndex(response_cache)].key]
           IN  IF Len(response_cache) # Cardinality(threads[t].snapshot)
               THEN threads' = Raise(t)
               ELSE IF keys # threads[t].snapshot
               THEN threads' = Raise(t) \/ threads' = found
               ELSE threads' = found
        /\ UNCHANGED <<response_cache, unthreaded>>

\* cache_response: `del response_cache[oldest_key]`
PutDel ==
    \E t \in Threads :
        /\ threads[t].pc = "p_del"
        /\ LET i == KeyIndex(response_cache, threads[t].oldest_key)
           IN  IF i = 0
               THEN threads' = Raise(t) /\ UNCHANGED response_cache
               ELSE /\ threads' = Return(t, ComputedResponse[threads[t].query])
                    /\ response_cache' = DictDel(response_cache, i)
        /\ UNCHANGED unthreaded

NextConc ==
    \/ ThreadCall
    \/ GetTest
    \/ GetRead
    \/ GetDel
    \/ PutInsert
    \/ PutLen
    \/ PutScan
    \/ PutDel
    \/ ClearCache

SpecConc == InitConc /\ [][NextConc]_vars

-----------------------------------------------------------------------------
(* The session services of app1: MemoryContextService and                  *)
(* SupabaseContextService (specification SpecSession)                      *)

SessionIds == { "s1", "s2" }

\* `limit: int = 10` of get_conversation_context
HistoryLimit == 10

\* messages stored in a run, and store calls the durable store may fail
MaxMessages == 11
MaxFallbacks == 1

\* the roles the callers pass, and the one text they store
R_USER == <<"U","s","e","r">>
R_ASSISTANT == <<"a","s","s","i","s","t","a","n","t">>
CONTENT == <<"h","i">>

\* lst[-n:]
LastSlice(lst, n) ==
    IF n = 0 \/ n >= Len(lst) THEN lst
    ELSE SubSeq(lst, Len(lst) - n + 1, Len(lst))

\* message_data of MemoryContextService.store_message; uuid4 and
\* datetime.now() are taken to give a new, later value at each call
MemoryMessage(id, session_id, content, role) ==
    [id |-> id, conversationId |-> session_id, content |-> content,
     role |-> role, createdAt |-> id]

\* MemoryContextService.store_message: self.conversations afterwards
MemoryContextService_store_message(convs, session_id, content, role, id) ==
    LET message_data == MemoryMessage(id, session_id, content, role)
    IN  IF session_id \in DOMAIN convs
        THEN [convs EXCEPT ![session_id] = Append(@, message_data)]
        ELSE convs @@ (session_id :> << message_data >>)

\* MemoryContextService.get_conversation_context
MemoryContextService_get_conversation_context(convs, session_id, limit) ==
    IF session_id \notin DOMAIN convs THEN <<>>
    ELSE IF convs[session_id] # <<>> THEN LastSlice(convs[session_id], limit)
    ELSE <<>>

\* SupabaseContextService.store_message: the two stores afterwards, the id
\* returned and the ids drawn. `fails`: the insert raises.
SupabaseContextService_store_message(convs, table, on, session_id, content, role, id, fails) ==
    IF ~on
    THEN [conversations |->
              MemoryContextService_store_message(convs, session_id, content,
                                                 role, id),
          messages_table |-> table, id |-> id, next_id |-> id + 1]
    ELSE IF fails
    THEN [conversations |->
              MemoryContextService_store_message(convs, session_id, content,
                                                 role, id + 1),
          messages_table |-> table, id |-> id + 1, next_id |-> id + 2]
    ELSE [conversations |-> convs,
          messages_table |->
              Append(table, [id |-> id, conversationId |-> session_id,
                             content |-> content, role |-> Lower(role),
                             createdAt |-> id]),
          id |-> id, next_id |-> id + 1]

\* the rows of a session, in createdAt order
SessionRows(table, session_id) ==
    SelectSeq(table, LAMBDA row : row.conversationId = session_id)

\* SupabaseContextService.get_conversation_context
SupabaseContextService_get_conversation_context(convs, table, on, session_id, limit, fails) ==
    IF ~on \/ fails
    THEN MemoryContextService_get_conversation_context(convs, session_id, limit)
    ELSE LET rows == SessionRows(table, session_id)
             history_data ==
                 SubSeq(rows, IF limit >= Len(rows) THEN 1
                              ELSE Len(rows) - limit + 1, Len(rows))
         IN  [i \in 1..Len(history_data) |->
                 [role |-> Lower(history_data[i].role),
                  content |-> history_data[i].content]]

\* the messages held by the two stores
Stored(convs, table) ==
    Len(table) +
    (LET RECURSIVE Sum(_)
         Sum(S) == IF S = {} THEN 0
                   ELSE LET x == CHOOSE x \in S : TRUE
                        IN  Len(convs[x]) + Sum(S \ {x})
     IN  Sum(DOMAIN convs))

MemoryStored(convs) == Stored(convs, <<>>)

\* SupabaseContextService(): enabled when the client could be created
InitSession ==
    /\ now = 0
    /\ response_cache = <<>>
    /\ indexed_chapters = {1, 2, 3}
    /\ last = NoRequest
    /\ stream = Idle
    /\ threads = NoThreads
    /\ conversations = <<>>
    /\ messages_table = <<>>
    /\ enabled \in BOOLEAN
    /\ next_id = 0
    /\ embedding_cache = <<>>
    /\ embed_calls = <<>>

unsessioned == <<now, response_cache, indexed_chapters, stream, threads, embedding>>

\* supabase_context_service.store_message(session_id, content, role). The
\* callers store the user's message and the reply in turn.
StoreAny ==
    /\ \E session_id \in SessionIds :
       \E fails \in { f \in BOOLEAN :
                        f => enabled /\ MemoryStored(conversations) < MaxFallbacks } :
          LET role == IF Stored(conversations, messages_table) % 2 = 0
                      THEN R_USER ELSE R_ASSISTANT
              r == SupabaseContextService_store_message(
                       conversations, messages_table, enabled, session_id,
                       CONTENT, role, next_id, fails)
          IN  /\ conversations' = r.conversations
              /\ messages_table' = r.messages_table
              /\ next_id' = r.next_id
              /\ last' = [kind |-> "store", session_id |-> session_id,
                          id |-> r.id]
    /\ UNCHANGED <<unsessioned, enabled>>

\* store_message, while fewer than MaxMessages messages are stored
StoreMessage ==
    /\ Stored(conversations, messages_table) < MaxMessages
    /\ StoreAny

\* supabase_context_service.get_conversation_context(session_id, limit)
GetContext ==
    /\ \E session_id \in SessionIds : \E fails \in { f \in BOOLEAN : f => enabled } :
          last' = [kind |-> "context", session_id |-> session_id,
                   limit |-> HistoryLimit,
                   messages |->
                       SupabaseContextService_get_conversation_context(
                           conversations, messages_table, enabled, session_id,
                           HistoryLimit, fails)]
    /\ UNCHANGED <<unsessioned, conversations, messages_table, enabled, next_id>>

NextSession ==
    \/ StoreMessage
    \/ GetContext

SpecSession == InitSession /\ [][NextSession]_vars

-----------------------------------------------------------------------------
(* chat_with_llm_stream of app1 and the streaming endpoints together       *)
(* (specification SpecStream)                                              *)

\* what `await asyncio.to_thread(f, ...)` gives for an `async def` f: the
\* worker thread calls f, which only makes the coroutine object; the body
\* of f does not run
Coroutine == [coroutine |-> TRUE]

\* greeting_answer (first turn, later turn) and chit_chat_answer
WELCOME == <<"Jai Srimannarayana! Welcome! I'm excited to help you explore the profound teachings of Bhagavad Gita. What would you like to learn about today?">>
WELCOME_BACK == <<"Jai Srimannarayana! Great to see you again! How can I help you continue your journey through the Gita today?">>
CHIT_CHAT == <<"As a specialized assistant for the Bhagavad Gita, my purpose is to provide philosophical guidance and textual context. I'm here to help you explore the profound wisdom of the Gita! What subject would you like to learn about today?">>

ContentEvent(content) == [type |-> "content", content |-> content]
MetadataEvent(session_id, total_passages) ==
    [type |-> "metadata", session_id |-> session_id,
     total_passages |-> total_passages]
StreamErrorEvent(e) == [type |-> "error", error |-> e]
DoneEvent == [type |-> "done"]

\* no session_id in the request (None, or the empty string)
NoSessionId == ""

\* llm_chat_data.session_id or f"session_{int(datetime.now().timestamp())}"
SessionIdOrNew(session_id, t) ==
    IF session_id # NoSessionId THEN session_id ELSE "session_" \o ToString(t)

\* str() of the AttributeError that `llm_chat_data.user_id` raises:
\* LLMChatMessage declares query, top_k and session_id only
NoUserIdError == "'LLMChatMessage' object has no attribute 'user_id'"

\* a request of app1 as served, with what the classifier answered and the
\* embedding, search and generation calls the handler made
Classified(result, intent, calls) ==
    [intent |-> intent, calls |-> calls] @@ result

\* generate_stream of chat_with_llm_stream at time t. env.intent is the
\* classifier's answer. The session calls go through asyncio.to_thread and
\* leave the stores as they are. A question gets no further than building
\* the task list, which reads llm_chat_data.user_id.
chat_with_llm_stream(query, session_id_given, t, cache, env) ==
    LET session_id == SessionIdOrNew(session_id_given, t)
        conversation_history == Coroutine
        \* `not conversation_history`: a coroutine object is true
        is_first_turn == FALSE
        greeting_answer == IF is_first_turn THEN WELCOME ELSE WELCOME_BACK
        done(outcome, events) ==
            Classified(Finished("app1_stream", query, outcome, 200, None,
                                NoCalls, 0, events, t, cache),
                       env.intent, NoCalls)
    IN  IF env.intent = "GREETING"
        THEN done("greeting",
                  << ContentEvent(greeting_answer),
                     MetadataEvent(session_id, 0), DoneEvent >>)
        ELSE IF env.intent = "CHITCHAT"
        THEN done("chitchat",
                  << ContentEvent(CHIT_CHAT),
                     MetadataEvent(session_id, 0), DoneEvent >>)
        ELSE done("stream_error",
                  << StreamErrorEvent(NoUserIdError), DoneEvent >>)

\* messages stored before and between the streamed requests
MaxEarlyMessages == 2

\* what classify_query_intent may answer
App1Envs == [intent : {"GREETING", "CHITCHAT", "QUESTION"}]

sessions == <<conversations, messages_table, enabled, next_id>>

\* POST /chat/stream of app1
ChatWithLlmStream ==
    /\ stream = Idle
    /\ \E q \in {Q_DHARMA, Q_KARMA} :
       \E session_id \in SessionIds \cup {NoSessionId} : \E env \in App1Envs :
          last' = chat_with_llm_stream(q, session_id, now, response_cache, env)
    /\ UNCHANGED <<now, response_cache, indexed_chapters, stream, threads, sessions,
                   embedding>>

\* store_message called directly, while few messages are stored
StoreEarly ==
    /\ Stored(conversations, messages_table) < MaxEarlyMessages
    /\ StoreAny

NextStream ==
    \/ Tick
    \/ ClearCache
    \/ ChatPostStream
    \/ StreamChunk
    \/ StreamFinish
    \/ StreamFail
    \/ StreamDisconnect
    \/ ChatWithLlmStream
    \/ StoreEarly

SpecStream == Init /\ [][NextStream]_vars

-----------------------------------------------------------------------------
(* chat_with_llm (POST /chat) and chat_with_llm_simple (POST /llm) of app1, *)
(* next to its streaming endpoint (specification SpecChat)                 *)

\* session ids chat_with_llm_simple may draw
MaxUuids == 2

\* LLMChatResponse(query=..., answer=..., relevant_passages=...,
\* total_passages=..., session_id=...): the model declares the first four
\* fields, and a keyword it does not declare is dropped
LLMChatResponse(query, answer, relevant_passages, total_passages, session_id) ==
    [query |-> query, answer |-> answer,
     relevant_passages |-> relevant_passages,
     total_passages |-> total_passages]

\* a request to /chat or /llm as served: what it was given, the session id
\* it worked with and what it answered
ChatFinished(kind, query, session_id_given, session_id, outcome, status, body, t) ==
    [kind |-> kind, query |-> query, session_id_given |-> session_id_given,
     session_id |-> session_id, outcome |-> outcome, status |-> status,
     body |-> body, time |-> t]

\* a handler that retrieves passages before it looks at the intent
chat_with_llm_retrieving(query, session_id_given, t, env) ==
    LET session_id == SessionIdOrNew(session_id_given, t)
        passages == << [id |-> "c1", score |-> 50] >>
        retrieved == [NoCalls EXCEPT !.embed = 1, !.search = 1]
        done(outcome, status, body) ==
            Classified(ChatFinished("app1_chat", query, session_id_given,
                                    session_id, outcome, status, body, t),
                       env.intent, retrieved)
    IN  IF env.intent = "GREETING"
        THEN done("greeting", 200,
                  LLMChatResponse(query, WELCOME_BACK, passages, 1, session_id))
        ELSE IF env.intent = "CHITCHAT"
        THEN done("chitchat", 200,
                  LLMChatResponse(query, CHIT_CHAT, passages, 1, session_id))
        ELSE done("http_error", 500,
                  [detail |-> <<"Contextual LLM chat failed: ", NoUserIdError>>])

\* chat_with_llm(llm_chat_data) at time t
chat_with_llm(query, session_id_given, t, env) ==
    LET session_id == SessionIdOrNew(session_id_given, t)
        conversation_history == Coroutine
        \* `not conversation_history`: a coroutine object is true
        is_first_turn == FALSE
        greeting_answer == IF is_first_turn THEN WELCOME ELSE WELCOME_BACK
        done(outcome, status, body) ==
            Classified(ChatFinished("app1_chat", query, session_id_given,
                                    session_id, outcome, status, body, t),
                       env.intent, NoCalls)
    IN  IF env.intent = "GREETING"
        THEN done("greeting", 200,
                  LLMChatResponse(query, greeting_answer, <<>>, 0, session_id))
        ELSE IF env.intent = "CHITCHAT"
        THEN done("chitchat", 200,
                  LLMChatResponse(query, CHIT_CHAT, <<>>, 0, session_id))
        ELSE done("http_error", 500,
                  [detail |-> <<"Contextual LLM chat failed: ", NoUserIdError>>])

\* llm_chat_data.session_id if llm_chat_data.session_id else str(uuid.uuid4())
SessionIdOrUuid(session_id, uuid) ==
    IF session_id # NoSessionId THEN session_id ELSE "uuid_" \o ToString(uuid)

\* chat_with_llm_simple(llm_chat_data), uuid being what uuid4 would draw
chat_with_llm_simple(query, session_id_given, uuid, t, env) ==
    LET session_id == SessionIdOrUuid(session_id_given, uuid)
        is_first_turn == FALSE
        greeting_answer == IF is_first_turn THEN WELCOME ELSE WELCOME_BACK
        done(outcome, status, body) ==
            Classified(ChatFinished("app1_llm", query, session_id_given,
                                    session_id, outcome, status, body, t),
                       env.intent, NoCalls)
    IN  IF env.intent = "GREETING"
        THEN done("greeting", 200,
                  LLMChatResponse(query, greeting_answer, <<>>, 0, session_id))
        ELSE IF env.intent = "CHITCHAT"
        THEN done("chitchat", 200,
                  LLMChatResponse(query, CHIT_CHAT, <<>>, 0, session_id))
        ELSE done("http_error", 500,
                  [detail |-> <<"LLM chat failed: ", NoUserIdError>>])

\* POST /chat of app1
ChatWithLlm ==
    /\ \E q \in {Q_DHARMA, Q_KARMA} :
       \E session_id \in SessionIds \cup {NoSessionId} : \E env \in App1Envs :
          last' = chat_with_llm(q, session_id, now, env)
    /\ UNCHANGED <<unsessioned, sessions>>

\* POST /llm of app1
ChatWithLlmSimple ==
    /\ next_id < MaxEarlyMessages + MaxUuids
    /\ \E q \in {Q_DHARMA, Q_KARMA} :
       \E session_id \in SessionIds \cup {NoSessionId} : \E env \in App1Envs :
          /\ last' = chat_with_llm_simple(q, session_id, next_id, now, env)
          /\ next_id' = IF session_id = NoSessionId THEN next_id + 1 ELSE next_id
    /\ UNCHANGED <<unsessioned, conversations, messages_table, enabled>>

NextChat ==
    \/ Tick
    \/ StoreEarly
    \/ GetContext
    \/ ChatWithLlm
    \/ ChatWithLlmSimple
    \/ ChatWithLlmStream

SpecChat == InitSession /\ [][NextChat]_vars

-----------------------------------------------------------------------------
(* The session service with add_conversation_turn (specification           *)
(* SpecService)                                                            *)

\* what `memory_context_service.add_conversation_turn` raises: the class
\* MemoryContextService defines no such method
NoTurnMethodError == "'MemoryContextService' object has no attribute 'add_conversation_turn'"

\* SupabaseContextService.add_conversation_turn: the two stores afterwards,
\* the id returned or the exception raised, and the ids drawn. `fails`: the
\* insert raises.
SupabaseContextService_add_conversation_turn(convs, table, on, session_id, role, content, id, fails) ==
    IF ~on
    THEN [conversations |-> convs, messages_table |-> table, id |-> None,
          raised |-> <<"AttributeError", NoTurnMethodError>>, next_id |-> id]
    ELSE IF fails
    THEN [conversations |-> convs, messages_table |-> table, id |-> None,
          raised |-> <<"AttributeError", NoTurnMethodError>>,
          next_id |-> id + 1]
    ELSE [conversations |-> convs,
          messages_table |->
              Append(table, [id |-> id, conversationId |-> session_id,
                             content |-> content, role |-> Lower(role),
                             createdAt |-> id]),
          id |-> [value |-> id], raised |-> None, next_id |-> id + 1]

\* uuid4 ids drawn in a run with add_conversation_turn
MaxTurnIds == 4

\* supabase_context_service.add_conversation_turn(session_id, role, content)
AddConversationTurn ==
    /\ next_id < MaxTurnIds
    /\ \E session_id \in SessionIds : \E role \in {R_USER, R_ASSISTANT} :
       \E fails \in { f \in BOOLEAN : f => enabled } :
          LET r == SupabaseContextService_add_conversation_turn(
                       conversations, messages_table, enabled, session_id,
                       role, CONTENT, next_id, fails)
          IN  /\ conversations' = r.conversations
              /\ messages_table' = r.messages_table
              /\ next_id' = r.next_id
              /\ last' = [kind |-> "turn", session_id |-> session_id,
                          role |-> role, fallback |-> ~enabled \/ fails,
                          id |-> r.id, raised |-> r.raised]
    /\ UNCHANGED <<unsessioned, enabled>>

NextService ==
    \/ StoreEarly
    \/ GetContext
    \/ AddConversationTurn

SpecService == InitSession /\ [][NextService]_vars

-----------------------------------------------------------------------------
(* Concurrent callers of MemoryContextService.store_message                *)
(* (specification SpecStore). The body of store_message has no await, so   *)
(* tasks of one event loop run it whole; callers on threads interleave     *)
(* between its statements, which is the granularity modelled.              *)

NumStoreThreads == 3
StoreThreads == 1..NumStoreThreads

\* store_message calls a caller makes
MaxStoreCalls == 1

IdleCaller ==
    [pc |-> "idle", session_id |-> "", role |-> <<>>, message_data |-> None,
     stored |-> <<>>]

\* a dict that forgets the list it holds under the key
dict_reset_item(convs, session_id) ==
    IF session_id \in DOMAIN convs
    THEN [convs EXCEPT ![session_id] = <<>>]
    ELSE convs @@ (session_id :> <<>>)

\* defaultdict(list).__getitem__: the list under the key, made and entered
\* in the dict by __missing__ when the key is new (one call in C)
defaultdict_getitem(convs, session_id) ==
    IF session_id \in DOMAIN convs THEN convs
    ELSE convs @@ (session_id :> <<>>)

\* list.append on the list the dict holds under the key
list_append(convs, session_id, message_data) ==
    [convs EXCEPT ![session_id] = Append(@, message_data)]

InitStore ==
    /\ now = 0
    /\ response_cache = <<>>
    /\ indexed_chapters = {1, 2, 3}
    /\ last = NoRequest
    /\ stream = Idle
    /\ threads = [t \in StoreThreads |-> IdleCaller]
    /\ conversations = <<>>
    /\ messages_table = <<>>
    /\ enabled = FALSE
    /\ next_id = 0
    /\ embedding_cache = <<>>
    /\ embed_calls = <<>>

unstored == <<now, response_cache, indexed_chapters, last, stream,
              messages_table, enabled, embedding>>

\* memory_context_service.store_message(session_id, content, role) is called
StoreCall ==
    \E t \in StoreThreads : \E session_id \in SessionIds :
    \E role \in {R_USER, R_ASSISTANT} :
        /\ threads[t].pc = "idle"
        /\ Len(threads[t].stored) < MaxStoreCalls
        /\ threads' = [threads EXCEPT ![t].pc = "sm_id",
                                      ![t].session_id = session_id,
                                      ![t].role = role]
        /\ UNCHANGED <<conversations, next_id, unstored>>

\* message_id = str(uuid.uuid4()); message_data = {...}
StoreMakeMessage ==
    \E t \in StoreThreads :
        /\ threads[t].pc = "sm_id"
        /\ threads' = [threads EXCEPT
               ![t].pc = "sm_getitem",
               ![t].message_data =
                   MemoryMessage(next_id, threads[t].session_id, CONTENT,
                                 threads[t].role)]
        /\ next_id' = next_id + 1
        /\ UNCHANGED <<conversations, unstored>>

\* self.conversations[session_id]
StoreGetItem ==
    \E t \in StoreThreads :
        /\ threads[t].pc = "sm_getitem"
        /\ conversations' =
               defaultdict_getitem(conversations, threads[t].session_id)
        /\ threads' = [threads EXCEPT ![t].pc = "sm_append"]
        /\ UNCHANGED <<next_id, unstored>>

\* .append(message_data); return message_id
StoreAppend ==
    \E t \in StoreThreads :
        /\ threads[t].pc = "sm_append"
        /\ conversations' =
               list_append(conversations, threads[t].session_id,
                           threads[t].message_data)
        /\ threads' = [threads EXCEPT
               ![t].pc = "idle",
               ![t].stored = Append(@, threads[t].message_data)]
        /\ UNCHANGED <<next_id, unstored>>

NextStore ==
    \/ StoreCall
    \/ StoreMakeMessage
    \/ StoreGetItem
    \/ StoreAppend

SpecStore == InitStore /\ [][NextStore]_vars

-----------------------------------------------------------------------------
(* Reading a session: get_conversation_context with any limit and          *)
(* build_context_prompt (specification SpecRead)                           *)

\* the limits the context is read with, and the messages stored in a run
Limits == { 0, 1, 2, HistoryLimit }
MaxReadMessages == 3

UpperChar(c) ==
    IF \E i \in 1..Len(LowerChars) : LowerChars[i] = c
    THEN UpperChars[CHOOSE i \in 1..Len(LowerChars) : LowerChars[i] = c]
    ELSE c

\* str.upper()
Upper(s) == [i \in 1..Len(s) |-> UpperChar(s[i])]

\* a lookup that subscripts the defaultdict without testing the key first
conversations_after_subscript(convs, session_id, limit) ==
    defaultdict_getitem(convs, session_id)

\* MemoryContextService.get_conversation_context: self.conversations
\* afterwards. `session_id not in self.conversations` does not enter the
\* key; the subscripts that follow are made for a key that is present.
conversations_after_context(convs, session_id, limit) ==
    IF session_id \notin DOMAIN convs THEN convs
    ELSE defaultdict_getitem(convs, session_id)

\* MemoryContextService.build_context_prompt: the prompt, as the list of
\* its lines (they are joined with "\n")
build_context_prompt(conversation_history, current_query) ==
    IF conversation_history = <<>>
    THEN << <<"Question: ", current_query>> >>
    ELSE LET recent_history == LastSlice(conversation_history, 10)
         IN  << <<"CONVERSATION HISTORY:">> >>
             \o [i \in 1..Len(recent_history) |->
                    <<Upper(recent_history[i].role), ": ",
                      recent_history[i].content>>]
             \o << <<"\nCURRENT QUESTION: ", current_query>> >>

\* store_message, while fewer than MaxReadMessages messages are stored
StoreFew ==
    /\ Stored(conversations, messages_table) < MaxReadMessages
    /\ StoreAny

\* supabase_context_service.get_conversation_context(session_id, limit)
ReadContext ==
    /\ \E session_id \in SessionIds : \E limit \in Limits :
       \E fails \in { f \in BOOLEAN : f => enabled } :
          /\ conversations' =
                 IF ~enabled \/ fails
                 THEN conversations_after_context(conversations, session_id, limit)
                 ELSE conversations
          /\ last' = [kind |-> "read", session_id |-> session_id,
                      limit |-> limit, from_memory |-> ~enabled \/ fails,
                      messages |->
                          SupabaseContextService_get_conversation_context(
                              conversations, messages_table, enabled,
                              session_id, limit, fails)]
    /\ UNCHANGED <<unsessioned, messages_table, enabled, next_id>>

\* memory_context_service.build_context_prompt(conversation_history, query)
\* on the context just read from the in-memory service
BuildContextPrompt ==
    /\ \E session_id \in SessionIds : \E q \in {Q_DHARMA} :
          LET conversation_history ==
                  MemoryContextService_get_conversation_context(
                      conversations, session_id, HistoryLimit)
          IN  /\ conversations' =
                     conversations_after_context(conversations, session_id,
                                                 HistoryLimit)
              /\ last' = [kind |-> "prompt", session_id |-> session_id,
                          history |-> conversation_history,
                          prompt |-> build_context_prompt(conversation_history, q)]
    /\ UNCHANGED <<unsessioned, messages_table, enabled, next_id>>

NextRead ==
    \/ StoreFew
    \/ ReadContext
    \/ BuildContextPrompt

SpecRead == InitSession /\ [][NextRead]_vars

-----------------------------------------------------------------------------
(* What the caller sees of an internal exception (specification SpecLeak): *)
(* the same request is served twice, the failing collaborator raising with *)
(* one text and with another                                               *)

ExceptionTexts == { E_TIMEOUT, E_API_KEY }

LeakQueries == { Q_DHARMA, Q_KARMA, Q_CHAPTER }

\* the collaborators of a failing request, raising with the given text
LeakEnv(fault, matches, text) ==
    [fault |-> fault, broader |-> {}, matches |-> matches,
     answer |-> <<"f1", "f2">>, text |-> text]

\* what the caller receives of process_chat_query: status and body
SyncOutput(query, chapters, env) ==
    LET r == process_chat_query(query, <<>>, 0, chapters, env).result
    IN  [status |-> r.status, body |-> r.body]

\* what the caller receives of chat_post_stream when a call of it fails:
\* status, body and events; a generator that got to produce fails at its
\* first fragment
StreamOutput(started) ==
    LET r == IF started.result # None THEN started.result
             ELSE stream_fail(started.stream, <<>>, 0).result
    IN  [status |-> r.status, body |-> r.body, events |-> r.events]

\* the same failing request to POST /chat/, with two exception texts
FailTwice ==
    /\ \E q \in LeakQueries : \E fault \in {"embed", "search", "generate"} :
       \E m \in { x \in MatchLists : Len(x) = 3 } : \E e1 \in ExceptionTexts : \E e2 \in ExceptionTexts :
          last' = [kind |-> "pair", endpoint |-> "sync", query |-> q,
                   fault |-> fault, texts |-> <<e1, e2>>,
                   outputs |->
                       <<SyncOutput(q, indexed_chapters, LeakEnv(fault, m, e1)),
                         SyncOutput(q, indexed_chapters, LeakEnv(fault, m, e2))>>]
    /\ UNCHANGED <<now, response_cache, indexed_chapters, stream, others>>

\* the same failing request to POST /chat/stream, with two exception texts
FailStreamTwice ==
    /\ \E q \in LeakQueries : \E fault \in {"embed", "search", "generate"} :
       \E m \in { x \in MatchLists : Len(x) = 3 } : \E e1 \in ExceptionTexts : \E e2 \in ExceptionTexts :
       \E s1 \in { chat_post_stream(q, <<>>, 0, indexed_chapters, LeakEnv(fault, m, e1)) } :
       \E s2 \in { chat_post_stream(q, <<>>, 0, indexed_chapters, LeakEnv(fault, m, e2)) } :
          last' = [kind |-> "pair", endpoint |-> "stream", query |-> q,
                   fault |-> fault, texts |-> <<e1, e2>>,
                   outputs |-> <<StreamOutput(s1), StreamOutput(s2)>>]
    /\ UNCHANGED <<now, response_cache, indexed_chapters, stream, others>>

NextLeak ==
    \/ IndexUpdate
    \/ FailTwice
    \/ FailStreamTwice

SpecLeak == Init /\ [][NextLeak]_vars

-----------------------------------------------------------------------------
(* classify_query_intent of app1 over the replies of the classifier        *)
(* (specification SpecIntent)                                              *)

I_GREETING == <<"G","R","E","E","T","I","N","G">>
I_CHITCHAT == <<"C","H","I","T","C","H","A","T">>
I_QUESTION == <<"Q","U","E","S","T","I","O","N">>
Intents == { I_GREETING, I_CHITCHAT, I_QUESTION }

\* message.content of the classifier's reply: a word, in some case, with
\* text around it
ReplyWords == { I_GREETING, I_CHITCHAT, I_QUESTION, <<"H","E","L","L","O">>, <<>> }
ReplyPrefixes == { <<>>, <<" ">> }
ReplySuffixes == { <<>>, <<"\n">>, <<".">> }
Capitalized(s) == IF s = <<>> THEN s ELSE <<Head(s)>> \o Lower(Tail(s))
ReplyTexts ==
    { pre \o w \o suf :
        pre \in ReplyPrefixes, suf \in ReplySuffixes,
        w \in UNION { { word, Lower(word), Capitalized(word) } :
                       word \in ReplyWords } }

\* what self.client.chat.completions.create gives: it raises, or returns a
\* response without choices, with content None, or with a text
ClassifierReplies ==
    { [kind |-> "raises"], [kind |-> "no_choices"], [kind |-> "no_content"] }
    \cup [kind : {"text"}, content : ReplyTexts]

\* classify_query_intent(query), for the reply of the classifier; every
\* exception inside the try block is caught
classify_query_intent(query, reply) ==
    IF reply.kind \in {"raises", "no_choices", "no_content"}
    THEN I_QUESTION
    ELSE Upper(Strip(reply.content))

\* await llm_service.classify_query_intent(query)
ClassifyQueryIntent ==
    /\ \E q \in {Q_DHARMA, Q_KARMA} : \E reply \in ClassifierReplies :
          last' = [kind |-> "intent", query |-> q, reply |-> reply,
                   raised |-> FALSE,
                   intent |-> classify_query_intent(q, reply)]
    /\ UNCHANGED <<now, response_cache, indexed_chapters, stream, others>>

NextIntent == ClassifyQueryIntent

SpecIntent == Init /\ [][NextIntent]_vars

-----------------------------------------------------------------------------
(* rerank_chunks_fast on its own (specification SpecRerank)                *)

MaxChunks == 3

RerankQueries == { Q_BLANK, Q_DHARMA, Q_KARMA }

\* the lists of at most MaxChunks chunks
ChunkLists == UNION { [1..n -> RerankChunks] : n \in 0..MaxChunks }

\* rerank_chunks_fast(query, chunks)
RerankChunksFast ==
    /\ \E q \in RerankQueries : \E chunks \in ChunkLists :
          last' = [kind |-> "rerank", query |-> q, chunks |-> chunks,
                   reranked |-> rerank_chunks_fast(q, chunks)]
    /\ UNCHANGED <<now, response_cache, indexed_chapters, stream, others>>

NextRerank == RerankChunksFast

SpecRerank == Init /\ [][NextRerank]_vars

-----------------------------------------------------------------------------
(* The candidates of a request on their own (specification SpecCandidates): *)
(* the one search of process_chat_query and the list it hands the reranker  *)

MaxResults == 3

\* `match.metadata.get("chunk_id", "unknown")`: the chunk id of a document
\* that was ingested without one
UNKNOWN == "unknown"

\* what the index can return: documents of POST /ingest, whose metadata holds
\* the text only, and chunks of the chapter files
IndexedMatches ==
    { Match(UNKNOWN, 81, T_DUTY), Match(UNKNOWN, 60, T_FIELD),
      Match(UNKNOWN, 42, T_YOGA), Match("c1", 78, T_DUTY),
      Match("c2", 45, T_FIELD), Match("c3", 30, T_YOGA) }

CandidateQueries == { Q_DHARMA, Q_KARMA, Q_CHAPTER }

\* results.matches of index.query(vector=query_vector, top_k=8): at most
\* MaxResults matches, best first
ResultLists ==
    { x \in UNION { [1..n -> IndexedMatches] : n \in 0..MaxResults } :
        \A i \in 1..(Len(x) - 1) : x[i].score > x[i + 1].score }

\* process_chat_query from the embedding of combined_query to the call of
\* rerank_chunks_fast: one search, the gate on the best score, all_matches
SearchCandidates ==
    /\ \E q \in CandidateQueries : \E matches \in ResultLists :
          LET intent == QueryIntent[q]
              gated == matches = <<>> \/ matches[1].score < min_score(intent)
          IN  last' = [kind |-> "candidates", query |-> q, searches |-> 1,
                       matches |-> matches, reranks |-> ~gated,
                       candidates |-> IF gated THEN <<>>
                                      ELSE all_matches(matches, intent)]
    /\ UNCHANGED <<now, response_cache, indexed_chapters, stream, others>>

NextCandidates == SearchCandidates

SpecCandidates == Init /\ [][NextCandidates]_vars

-----------------------------------------------------------------------------
(* normalize_query on its own (specification SpecNormalize)                *)

Q_YOGA       == <<"y","o","g","a">>
Q_BHAKTI     == <<"b","h","a","k","t","i">>
Q_JNANA      == <<"j","n","a","n","a">>
Q_BHAKTI_Y   == <<"B","h","a","k","t","i"," ","Y","o","g","a">>
Q_JNANA_Y    == <<"t","h","e"," ","j","n","a","n","a"," ","y","o","g","a"," ","p","a","t","h">>
Q_BOTH       == <<"k","a","r","m","a"," ","a","n","d"," ","d","h","a","r","m","a">>
Q_ARJUNA     == <<"\t", "A", "r", "j", "u", "n", "a", "\n">>

\* the queries normalize_query is called with on its own
NormalizeQueries ==
    { Q_BLANK, Q_DHARMA, Q_DHARMA_2, Q_KARMA, Q_CHAPTER, Q_MOKSHA, Q_YOGA,
      Q_BHAKTI, Q_JNANA, Q_BHAKTI_Y, Q_JNANA_Y, Q_BOTH, Q_ARJUNA }

\* normalize_query(query), called while requests come and time passes
NormalizeQuery ==
    /\ \E q \in NormalizeQueries :
          last' = [kind |-> "normalize", query |-> q,
                   normalized |-> normalize_query(q)]
    /\ UNCHANGED <<now, response_cache, indexed_chapters, stream, others>>

NextNormalize ==
    \/ Tick
    \/ IndexUpdate
    \/ NormalizeQuery

SpecNormalize == Init /\ [][NextNormalize]_vars

-----------------------------------------------------------------------------
(* The evidence context on its own (specification SpecContext):            *)
(* process_chat_query from the search result to the response               *)

ContextQueries == { Q_DHARMA, Q_KARMA, Q_CHAPTER }

\* results.matches: the matches of a page that the index holds, best first
PageResults ==
    { SelectSeq(TopMatches, LAMBDA m : m \in kept) :
        kept \in SUBSET { TopMatches[i] : i \in 1..Len(TopMatches) } }

\* the request of a query that is not cached and passes the guardrail, from
\* the search result on: gate, all_matches, rerank_chunks_fast, context,
\* generation and response
AssembleContext ==
    /\ \E q \in ContextQueries : \E matches \in PageResults : \E answer \in Answers :
       \E reranked_chunks \in
              { rerank_chunks_fast(q, all_matches(matches, QueryIntent[q])) } :
          LET intent == QueryIntent[q]
              gated == \/ matches = <<>>
                       \/ matches[1].score < min_score(intent)
                       \/ reranked_chunks = <<>>
          IN  last' = [kind |-> "assemble", query |-> q, matches |-> matches,
                       generates |-> ~gated,
                       reranked |-> IF gated THEN <<>> ELSE reranked_chunks,
                       context |->
                           IF gated THEN <<>>
                           ELSE context_parts(context_chunks(reranked_chunks, intent)),
                       response |->
                           IF gated
                           THEN NoKnowledgeResponse(
                                    IF matches # <<>> /\ matches[1].score < min_score(intent)
                                    THEN matches[1].score ELSE 0)
                           ELSE AnswerResponse(answer, reranked_chunks, intent)]
    /\ UNCHANGED <<now, response_cache, indexed_chapters, stream, others>>

NextContext == AssembleContext

SpecContext == Init /\ [][NextContext]_vars

-----------------------------------------------------------------------------
(* The embedding cache of app1 (specification SpecEmbed): embed_text and   *)
(* embed_text_async called from the tasks of one event loop                *)

cache_max_size == 2
NumEmbedTasks == 2

EmbedTasks == 1..NumEmbedTasks

\* the texts that get embedded, and what the service answers: the embedding
\* of a text is one of two nearly equal vectors
EmbedTexts == { "t1", "t2", "t3", "t4" }
Vector(text, variant) == [of |-> text, variant |-> variant]
Variants == { 1, 2 }

\* _get_cache_key(text): the md5 digest of the text, one key per text
embed_cache_key(text) == <<"md5", text>>

\* a store that never evicts
embedding_store_unbounded(cache, cache_key, vector) ==
    LET i == KeyIndex(cache, cache_key)
        entry == [key |-> cache_key, embedding |-> vector]
    IN  IF i = 0 THEN Append(cache, entry) ELSE [cache EXCEPT ![i] = entry]

\* `if len(_embedding_cache) >= _cache_max_size: del _embedding_cache[
\* next(iter(_embedding_cache))]`, then `_embedding_cache[cache_key] =
\* embedding`: an existing key keeps its place, a new key goes last
embedding_store(cache, cache_key, vector) ==
    LET kept == IF Len(cache) >= cache_max_size THEN DictDel(cache, 1) ELSE cache
        i == KeyIndex(kept, cache_key)
        entry == [key |-> cache_key, embedding |-> vector]
    IN  IF i = 0 THEN Append(kept, entry) ELSE [kept EXCEPT ![i] = entry]

\* what a call returned: the vector, whether it came from the cache, how
\* often the embedding service was called, and the cache it found and left
Embedded(kind, task, text, vector, hit, calls, before, after) ==
    [kind |-> kind, task |-> task, text |-> text, vector |-> vector,
     hit |-> hit, service_calls |-> calls, cache_before |-> before,
     cache_after |-> after]

InitEmbed ==
    /\ now = 0
    /\ response_cache = <<>>
    /\ indexed_chapters = {1, 2, 3}
    /\ last = NoRequest
    /\ stream = Idle
    /\ threads = NoThreads
    /\ conversations = <<>>
    /\ messages_table = <<>>
    /\ enabled = FALSE
    /\ next_id = 0
    /\ embedding_cache = <<>>
    /\ embed_calls = [t \in EmbedTasks |-> [pc |-> "idle"]]

unembedded == <<now, response_cache, indexed_chapters, stream, threads,
                conversations, messages_table, enabled, next_id>>

\* embed_text(text): no await, so the whole call is one step of the loop
EmbedText ==
    /\ \E text \in EmbedTexts : \E variant \in Variants :
          LET cache_key == embed_cache_key(text)
              i == KeyIndex(embedding_cache, cache_key)
          IN  IF i # 0
              THEN /\ last' = Embedded("embed_text", 0, text,
                                       embedding_cache[i].embedding, TRUE, 0,
                                       embedding_cache, embedding_cache)
                   /\ UNCHANGED embedding_cache
              ELSE \E after \in { embedding_store(embedding_cache, cache_key,
                                                  Vector(text, variant)) } :
                   /\ embedding_cache' = after
                   /\ last' = Embedded("embed_text", 0, text,
                                       Vector(text, variant), FALSE, 1,
                                       embedding_cache, after)
    /\ UNCHANGED <<embed_calls, unembedded>>

\* embed_text_async(text) up to `await async_client.embeddings.create`
EmbedTextAsync ==
    /\ \E t \in EmbedTasks : \E text \in EmbedTexts :
          LET cache_key == embed_cache_key(text)
              i == KeyIndex(embedding_cache, cache_key)
          IN  /\ embed_calls[t].pc = "idle"
              /\ IF i # 0
                 THEN /\ last' = Embedded("embed_text_async", t, text,
                                          embedding_cache[i].embedding, TRUE, 0,
                                          embedding_cache, embedding_cache)
                      /\ UNCHANGED embed_calls
                 ELSE /\ last' = NoRequest
                      /\ embed_calls' = [embed_calls EXCEPT
                             ![t] = [pc |-> "awaiting", text |-> text]]
    /\ UNCHANGED <<embedding_cache, unembedded>>

\* the service answered: embed_text_async stores the embedding and returns
EmbedTextAsyncResume ==
    /\ \E t \in EmbedTasks : \E variant \in Variants :
          /\ embed_calls[t].pc = "awaiting"
          /\ LET text == embed_calls[t].text IN
             \E after \in { embedding_store(embedding_cache, embed_cache_key(text),
                                            Vector(text, variant)) } :
                /\ embedding_cache' = after
                /\ last' = Embedded("embed_text_async", t, text,
                                    Vector(text, variant), FALSE, 1,
                                    embedding_cache, after)
          /\ embed_calls' = [embed_calls EXCEPT ![t] = [pc |-> "idle"]]
    /\ UNCHANGED unembedded

NextEmbed ==
    \/ EmbedText
    \/ EmbedTextAsync
    \/ EmbedTextAsyncResume

SpecEmbed == InitEmbed /\ [][NextEmbed]_vars

-----------------------------------------------------------------------------
(* The two endpoints of app/routers/chat.py on the same request            *)
(* (specification SpecBoth): the same query is given to process_chat_query *)
(* and to chat_post_stream in the same state, with the same collaborator   *)
(* results, and the stream is read to its end                              *)

\* `for chunk in llm.generate_answer_stream(...)` read to exhaustion
RECURSIVE stream_drain(_)
stream_drain(gen) ==
    IF gen.pending = <<>> THEN gen ELSE stream_drain(stream_chunk(gen))

\* chat_post_stream consumed by a caller who stays: [result, cache]
stream_consumed(started, t) ==
    IF started.result # None
    THEN [result |-> started.result, cache |-> started.cache]
    ELSE stream_finish(stream_drain(started.stream), started.cache, t)

\* the request served by the one endpoint and by the other
ServeBoth ==
    /\ \E q \in Queries : \E env \in Envs(q, response_cache, now, indexed_chapters) :
       /\ env.fault = "none"
       /\ \E sync \in { process_chat_query(q, response_cache, now,
                                           indexed_chapters, env) } :
          \E started \in { chat_post_stream(q, response_cache, now,
                                            indexed_chapters, env) } :
          \E streamed \in { stream_consumed(started, now) } :
             last' = [kind |-> "both", query |-> q,
                      cache_before |-> response_cache,
                      sync |-> sync.result, stream |-> streamed.result,
                      sync_cache |-> sync.cache,
                      stream_cache |-> streamed.cache]
    /\ UNCHANGED <<now, response_cache, indexed_chapters, stream, others>>

NextBoth ==
    \/ Tick
    \/ ClearCache
    \/ IndexUpdate
    \/ ChatPost
    \/ ServeBoth

SpecBoth == Init /\ [][NextBoth]_vars

-----------------------------------------------------------------------------
(* The guardrail on its own (specification SpecGuard):                     *)
(* validate_query_against_available_content over the states of the index   *)

\* what the index sample and the broader search can find
GuardIndexStates == (SUBSET {1, 2, 9}) \cup {{1, 2, 3}}
GuardBroaderFinds == { {}, {1, 2}, {9} }

GuardEnvs(chapters) ==
    [fault : {"none", "discover", "embed"},
     broader : IF chapters = {} THEN GuardBroaderFinds ELSE {{}}]

\* the index is re-ingested with other chapters
Reingest ==
    /\ \E chapters \in GuardIndexStates \ {indexed_chapters} :
           indexed_chapters' = chapters
    /\ last' = NoRequest
    /\ UNCHANGED <<now, response_cache, stream, others>>

\* validate_query_against_available_content(query)
ValidateQuery ==
    /\ \E q \in GuardQueries : \E env \in GuardEnvs(indexed_chapters) :
           last' = [kind |-> "validate", query |-> q,
                    chapters |-> indexed_chapters, env |-> env,
                    validation |-> validate_query_against_available_content(
                                       q, indexed_chapters, env)]
    /\ UNCHANGED <<now, response_cache, indexed_chapters, stream, others>>

NextGuard ==
    \/ Reingest
    \/ ValidateQuery

SpecGuard == Init /\ [][NextGuard]_vars

-----------------------------------------------------------------------------
(* Properties of the response cache (specification Spec)                   *)

\* the entries and the keys of a cache
Entries(cache) == { cache[i] : i \in 1..Len(cache) }
CacheKeys(cache) == { cache[i].key : i \in 1..Len(cache) }

\* the last request called cache_response with a key that was new to a cache
\* holding exactly MAX_CACHE_SIZE entries
InsertedIntoFull ==
    /\ last.cache_writes = 1
    /\ Len(last.cache_before) = MAX_CACHE_SIZE
    /\ get_cache_key(last.query) \notin CacheKeys(last.cache_before)

\* C1: with cache_response calls that do not overlap, the cache never holds
\* more than MAX_CACHE_SIZE entries, and a call that inserts a new key into
\* a cache of exactly MAX_CACHE_SIZE entries removes exactly one entry, one
\* whose timestamp is the smallest among all entries
C1_CacheBound ==
    /\ Len(response_cache) <= MAX_CACHE_SIZE
    /\ InsertedIntoFull =>
        LET removed == Entries(last.cache_before) \ Entries(response_cache)
        IN  /\ Len(response_cache) = MAX_CACHE_SIZE
            /\ Cardinality(removed) = 1
            /\ \A e \in removed :
                 \A x \in Entries(last.cache_before) \cup Entries(response_cache) :
                     e.timestamp <= x.timestamp

\* C1 witness: a new key was inserted into a full cache whose entries had
\* different timestamps; the older entry is gone, the younger one and the
\* new one are there
C1_Witness ==
    /\ InsertedIntoFull
    /\ last.cache_before[1].timestamp < last.cache_before[2].timestamp
    /\ last.cache_before[1] \notin Entries(response_cache)
    /\ last.cache_before[2] \in Entries(response_cache)
    /\ get_cache_key(last.query) \in CacheKeys(response_cache)

-----------------------------------------------------------------------------
(* Properties of a served request (specification Spec). `last` is the      *)
(* request served last, response_cache the cache it left.                  *)

Served == last.kind \in {"sync", "stream"}

\* a blank or whitespace-only query
OnlyWhitespace(query) == \A i \in 1..Len(query) : query[i] \in Whitespace

\* the last request looked its key up, at last.time in last.cache_before
\* (the end of a streamed answer is recorded with the cache the generator
\* ended on, not with the cache of the lookup)
LookedUp ==
    /\ Served
    /\ ~OnlyWhitespace(last.query)
    /\ last.kind = "stream" => last.calls.generate = 0

\* the entry the lookup found under the key of the query, and its age
FoundIndex == KeyIndex(last.cache_before, get_cache_key(last.query))
Found == last.cache_before[FoundIndex]
Age == last.time - Found.timestamp

\* what the caller received: the body, or the last event of the stream
Reply == IF last.kind = "sync" THEN last.body ELSE last.events[Len(last.events)]

\* a hit is served from an entry younger than CACHE_TTL
HitIsFresh ==
    last.outcome = "cache_hit" =>
        FoundIndex # 0 /\ Age < CACHE_TTL /\ Reply = Found.response

FullRun ==
    last.calls.embed >= 1 /\ last.calls.search = 1 /\ last.calls.generate = 1

\* C2 as stated: a stored response is returned only while its age is below
\* CACHE_TTL; at age CACHE_TTL or more the lookup returns nothing and
\* deletes the entry, and the request makes a full pipeline run
C2_Original ==
    LookedUp =>
        /\ HitIsFresh
        /\ FoundIndex # 0 /\ Age >= CACHE_TTL =>
            /\ last.outcome # "cache_hit"
            /\ Found \notin Entries(response_cache)
            /\ FullRun

\* C2 amended: a stored response is returned only while its age is below
\* CACHE_TTL; at age CACHE_TTL or more the lookup returns nothing and
\* deletes the entry, and the request goes on as a cache miss: it is
\* blocked by the guardrail, fails, finds nothing relevant (embedding and
\* search, no generation), or is answered after a full pipeline run
C2_ExpiryByAge ==
    LookedUp =>
        /\ HitIsFresh
        /\ FoundIndex # 0 /\ Age >= CACHE_TTL =>
            /\ last.outcome \in {"blocked", "no_knowledge", "http_error",
                                 "stream_error", "answered"}
            /\ Found \notin Entries(response_cache)
            /\ last.outcome = "answered" => FullRun
            /\ last.outcome = "no_knowledge" =>
                 /\ last.calls.embed >= 1
                 /\ last.calls.search = 1
                 /\ last.calls.generate = 0
            /\ last.outcome = "blocked" =>
                 last.calls.search = 0 /\ last.calls.generate = 0

\* C2 witness: a request found an entry of age exactly CACHE_TTL, did not
\* serve it, and answered from a full run that replaced the entry
C2_Witness ==
    /\ LookedUp
    /\ FoundIndex # 0
    /\ Age = CACHE_TTL
    /\ last.outcome = "answered"
    /\ Found \notin Entries(response_cache)

\* a step in which process_chat_query is called again with the query of the
\* request before it (only the clock moved in between)
SecondCall ==
    /\ last.kind = "sync"
    /\ last'.kind = "sync"
    /\ last'.query = last.query
    /\ ~OnlyWhitespace(last.query)
    /\ now' = now

\* when the answer the first call returned was put into the cache
CachedAt == IF last.outcome = "answered" THEN last.time ELSE Found.timestamp

NoPipelineCalls(r) ==
    r.calls.embed = 0 /\ r.calls.search = 0 /\ r.calls.generate = 0

\* C3 as stated: two successive process_chat_query(Q) calls within the TTL
\* return identical responses and the second makes no embedding, search or
\* generation call
C3_Original ==
    [][SecondCall /\ last'.time - last.time < CACHE_TTL =>
          last'.body = last.body /\ NoPipelineCalls(last')]_vars

\* C3 amended: when the first call returned an answer (computed, or served
\* from the cache) and the second call comes less than CACHE_TTL after that
\* answer was cached, the second call returns the identical response and
\* makes no embedding, search or generation call
C3_CacheIdempotence ==
    [][(/\ SecondCall
        /\ last.outcome \in {"answered", "cache_hit"}
        /\ last'.time - CachedAt < CACHE_TTL)
       => /\ last'.outcome = "cache_hit"
          /\ last'.body = last.body
          /\ last'.status = last.status
          /\ NoPipelineCalls(last')
          /\ last'.calls.discover = 0]_vars

\* C3 witness: process_chat_query served, from the cache, an answer that an
\* earlier process_chat_query call had computed and cached some time before
C3_Witness ==
    /\ last.kind = "sync"
    /\ last.outcome = "cache_hit"
    /\ FoundIndex # 0
    /\ 0 < Age /\ Age < CACHE_TTL
    /\ last.body = Found.response
    /\ "is_streaming" \notin DOMAIN last.body

\* C7: a request that gets a cache hit returns the cached response, makes
\* no guardrail-discovery, embedding, search or generation call and does
\* not write to the cache; the streaming endpoint sends exactly one event,
\* the cached response
C7_HitShortCircuits ==
    Served /\ last.outcome = "cache_hit" =>
        /\ FoundIndex # 0
        /\ last.calls = NoCalls
        /\ last.cache_writes = 0
        /\ response_cache = last.cache_before
        /\ last.status = 200
        /\ last.kind = "sync" => last.body = Found.response
        /\ last.kind = "stream" => last.events = << Found.response >>

\* C7 witness: the streaming endpoint served a hit while the cache held
\* another entry as well
C7_Witness ==
    /\ last.kind = "stream"
    /\ last.outcome = "cache_hit"
    /\ Len(last.events) = 1
    /\ Len(response_cache) = MAX_CACHE_SIZE

\* the guardrail, asked now, finds a chapter of the query missing from a
\* non-empty index
GuardrailBlocks(query, chapters) ==
    /\ chapters # {}
    /\ ~validate_query_against_available_content(
            query, chapters, [fault |-> "none", broader |-> {}]).is_valid

HasFresh == FoundIndex # 0 /\ Age < CACHE_TTL

C10_Original ==
    Served /\ OnlyWhitespace(last.query) =>
        /\ last.calls = NoCalls
        /\ last.cache_writes = 0
        /\ response_cache = last.cache_before
        /\ last.status = 200
        /\ "answer" \in DOMAIN Reply

\* C10, what the endpoints do instead: a blank query is rejected before any
\* cache, embedding, search or generation work, but the HTTPException(400)
\* is raised inside the try block and caught by `except Exception`, so the
\* caller gets HTTP 500 with the detail "Error processing query: 400: Query
\* cannot be empty"; the streaming endpoint sends no event
C10_BlankRejected ==
    Served /\ OnlyWhitespace(last.query) =>
        /\ last.calls = NoCalls
        /\ last.cache_writes = 0
        /\ response_cache = last.cache_before
        /\ last.outcome = "http_error"
        /\ last.status = 500
        /\ last.body = ServerError(EmptyQueryError)
        /\ last.events = <<>>

\* C10: a blank query was sent to the streaming endpoint while the cache
\* held an entry
C10_Witness ==
    /\ last.kind = "stream"
    /\ OnlyWhitespace(last.query)
    /\ last.status = 500
    /\ response_cache # <<>>

-----------------------------------------------------------------------------
(* Properties of the cache under concurrent requests (specification        *)
(* SpecConc)                                                               *)

\* C4: once the interleaved cache_response calls have finished, the cache
\* holds no more than MAX_CACHE_SIZE entries
C4_BoundAfterInterleaving ==
    (\A t \in Threads : Stopped(t)) => Len(response_cache) <= MAX_CACHE_SIZE

\* C5: no interleaving of get_cached_response, cache_response and
\* clear_cache on different threads makes one of them fail, and a request
\* that returned was given a response stored for the key of its query
C5_NoInterference ==
    \A t \in Threads :
        /\ threads[t].pc # "failed"
        /\ threads[t].pc = "done" =>
             \E q \in ThreadQueries :
                 /\ get_cache_key(q) = ThreadKey(t)
                 /\ threads[t].reply = ComputedResponse[q]

-----------------------------------------------------------------------------
(* Properties of the session stores (specification SpecSession)            *)

\* the messages a session holds, in either store
History(session_id) ==
    (IF session_id \in DOMAIN conversations
     THEN conversations[session_id] ELSE <<>>)
    \o SessionRows(messages_table, session_id)

\* C6: a session never holds more than HistoryLimit turns (an append to a
\* session that holds HistoryLimit turns drops the oldest one)
C6_SessionBound ==
    \A session_id \in SessionIds : Len(History(session_id)) <= HistoryLimit

-----------------------------------------------------------------------------
(* Properties of the streaming endpoints (specification SpecStream)        *)

Generating == stream.pc = "generating"

\* a step of a streaming endpoint: its generator moves, or it answers
StreamStep ==
    \/ stream' # stream
    \/ last' # last /\ last'.kind \in {"stream", "app1_stream"}

HasErrorEvent(events) ==
    \E i \in 1..Len(events) : "error" \in DOMAIN events[i]

\* C9: in the streaming endpoints an answer is written to the response
\* cache or the session only after the generator has finished successfully.
\* A generation that fails mid-stream sends an error event and writes
\* neither the cache nor the session; a caller that disconnects mid-stream
\* leaves the cache and the session as they were.
C9_WriteAfterStream ==
    [][/\ \A e \in Entries(response_cache') \ Entries(response_cache) :
            /\ stream.pc = "generating"
            /\ stream.pending = <<>>
            /\ stream' = Idle
            /\ last'.outcome = "answered"
            /\ e.key = get_cache_key(stream.query)
            /\ e.response.answer = stream.full_answer
            /\ e.response.answer \in Answers
            /\ e.response = last'.events[Len(last'.events)]
       /\ StreamStep => UNCHANGED <<conversations, messages_table>>
       /\ Generating /\ stream' = Idle /\ last'.outcome = "stream_error" =>
            /\ HasErrorEvent(last'.events)
            /\ response_cache' = response_cache
       /\ Generating /\ stream' = Idle /\ last'.outcome = "disconnected" =>
            /\ last'.events = stream.events
            /\ response_cache' = response_cache]_vars

\* C9 witness: the generator of /chat/stream failed after a fragment had
\* been sent, with messages in the session store and an entry in the
\* cache: the error event was sent and the cache is as it was
C9_Witness ==
    /\ last.kind = "stream"
    /\ last.outcome = "stream_error"
    /\ Len(last.events) >= 2
    /\ HasErrorEvent(last.events)
    /\ response_cache = last.cache_before
    /\ response_cache # <<>>
    /\ conversations # <<>>

-----------------------------------------------------------------------------
(* Failure of the generation call (specification Spec)                     *)

\* the last request reached the generation call and the call failed
GenerationFailed ==
    /\ Served
    /\ last.outcome \in {"http_error", "stream_error"}
    /\ last.calls.generate = 1

\* the step serves the query of the last request again
SameQueryAgain ==
    /\ Served
    /\ stream = Idle
    /\ \/ stream' = Idle /\ last'.kind \in {"sync", "stream"}
                         /\ last'.query = last.query
       \/ stream' # Idle /\ stream'.query = last.query

\* C11 as stated: if the generation call fails, nothing is stored for the
\* query and the cache is exactly as it was before the request, so a later
\* identical query runs the full pipeline again
C11_Original ==
    [][/\ GenerationFailed' /\ last'.kind = "sync" =>
            response_cache' = last'.cache_before
       /\ GenerationFailed /\ SameQueryAgain /\ stream' = Idle =>
            FullRun']_vars

\* C11 amended: if the generation call fails, nothing is stored for the
\* query: afterwards the cache holds no entry under its key, and every
\* entry of another key is as it was (an expired entry of the query itself
\* was deleted by the lookup). A later identical query is a cache miss
\* again: it is never answered from the cache, and if it is answered it
\* was by a full pipeline run.
C11_NoStoreOnFailure ==
    [][/\ GenerationFailed' =>
            /\ get_cache_key(last'.query) \notin CacheKeys(response_cache')
            /\ last'.cache_writes = 0
            /\ response_cache' =
                   SelectSeq(last'.cache_before,
                             LAMBDA e : e.key # get_cache_key(last'.query))
       /\ GenerationFailed /\ SameQueryAgain =>
            IF stream' = Idle
            THEN /\ last'.outcome # "cache_hit"
                 /\ last'.outcome = "answered" => FullRun'
            ELSE stream'.calls.generate = 1]_vars

\* C11 witness: the generation call of process_chat_query failed for a
\* query whose expired entry the lookup had deleted, while the cache held
\* another entry, which it kept
C11_Witness ==
    /\ GenerationFailed
    /\ last.kind = "sync"
    /\ FoundIndex # 0
    /\ response_cache # last.cache_before
    /\ response_cache # <<>>

\* apology_variations of BhagavadGitaLLMService._get_error_response
apology_variations ==
    << <<"I apologize, but I'm having trouble processing your request right now. Please try again.">>,
       <<"Sorry, I'm experiencing some technical difficulties. Please try asking your question again.">>,
       <<"I apologize, but I can't generate a response at the moment. Please try again later.">>,
       <<"Sorry, I'm having issues processing your request. Please try again.">> >>

\* random.choice(apology_variations), choice being the index drawn
get_error_response(choice) == apology_variations[choice]

ApologyPool == { get_error_response(choice) : choice \in 1..Len(apology_variations) }

\* C12: if the generation call fails, the request is still answered with a
\* well-formed response whose answer is one of the canned apologies, and
\* not with a transport-level failure
C12_FallbackOnFailure ==
    GenerationFailed =>
        /\ last.status = 200
        /\ "answer" \in DOMAIN Reply
        /\ Reply.answer \in ApologyPool

-----------------------------------------------------------------------------
(* Properties of /chat and /llm of app1 (specification SpecChat)           *)

ChatServed == last.kind \in {"app1_chat", "app1_llm"}

\* C13: a request that ends in a greeting or chitchat reply (a guardrail
\* block, a no-relevant-content answer) has appended the exchange to the
\* history of its session when the response is returned, so that a later
\* read of the session contains it
C13_SessionUpdated ==
    ChatServed /\ last.outcome \in {"greeting", "chitchat"} =>
        \E i \in 1..Len(History(last.session_id)) :
            History(last.session_id)[i].content = last.body.answer

\* C19: two requests that supply no session_id are given session ids that
\* differ from each other; a supplied session_id is used unchanged
C19_DistinctSessionIds ==
    [][ChatServed' =>
          /\ last'.session_id_given # NoSessionId =>
                 last'.session_id = last'.session_id_given
          /\ (/\ ChatServed
              /\ last # last'
              /\ last.session_id_given = NoSessionId
              /\ last'.session_id_given = NoSessionId)
             => last'.session_id # last.session_id]_vars

-----------------------------------------------------------------------------
(* The gate and the retention filter (specification Spec)                  *)

\* the search of the last request returned (last.matches is its result)
SearchReturned ==
    /\ Served
    /\ last.calls.search = 1
    /\ last.outcome \in {"http_error", "stream_error"} => last.calls.generate = 1

\* the gate threshold of the last request
GateThreshold == min_score(QueryIntent[last.query])

\* C14: whenever the pipeline answers with the no-knowledge response,
\* sources is empty and confidence is the top raw score the search
\* returned, and 0 only when the search returned no match at all
C14_NoKnowledgeConfidence ==
    Served /\ last.outcome = "no_knowledge" =>
        /\ Reply.answer = NoInformation
        /\ Reply.sources = <<>>
        /\ Reply.confidence =
               IF last.matches = <<>> THEN 0 ELSE last.matches[1].score
        /\ Reply.confidence = 0 => last.matches = <<>>

\* C15: a search result whose top score is at or above the gate threshold,
\* the threshold itself included, keeps a candidate for reranking and goes
\* on to generation; only an empty result or a top score below the
\* threshold takes the no-answer path
C15_GateThenRetain ==
    SearchReturned =>
        IF last.matches # <<>> /\ last.matches[1].score >= GateThreshold
        THEN last.calls.generate = 1 /\ last.outcome # "no_knowledge"
        ELSE last.calls.generate = 0 /\ last.outcome = "no_knowledge"

-----------------------------------------------------------------------------
(* The guardrail (specification Spec)                                      *)

\* the chapters the query of the last request names
Named == { LoweredChapters[last.query][i] :
               i \in 1..Len(LoweredChapters[last.query]) }

\* the guardrail of the last request got to know the chapters of the index
Discovered == Served /\ last.found # None

\* seq lists the members of S, each once, in ascending order
ListsAscending(seq, S) ==
    /\ { seq[i] : i \in 1..Len(seq) } = S
    /\ \A i \in 1..Len(seq) - 1 : seq[i] < seq[i + 1]

\* C16: when the query names a chapter that is not indexed and at least one
\* chapter was discovered in the index, the request is answered with the
\* block message listing the available chapters in ascending order, with
\* confidence 0 and empty sources; the query is not embedded, no
\* nearest-neighbour search for it and no generation is made, and nothing
\* is written to the cache
C16_BlockedUnavailable ==
    (/\ Discovered
     /\ last.found.chapters # {}
     /\ Named \ last.found.chapters # {})
    => /\ last.outcome = "blocked"
       /\ last.status = 200
       /\ DOMAIN Reply = {"answer", "confidence", "sources", "available_chapters"}
       /\ Reply.confidence = 0
       /\ Reply.sources = <<>>
       /\ ListsAscending(Reply.available_chapters, last.found.chapters)
       /\ Reply.answer[1] = "Chapters "
       /\ Reply.answer[4] = Reply.available_chapters
       /\ last.kind = "stream" => Len(last.events) = 1
       /\ last.calls.search = 0
       /\ last.calls.generate = 0
       \* the one embedding is that of the guardrail's broader search
       /\ last.calls.embed = IF indexed_chapters = {} THEN 1 ELSE 0
       /\ last.cache_writes = 0
       /\ get_cache_key(last.query) \notin CacheKeys(response_cache)

\* C16 witness: a request for chapter 9 was blocked with the list of the
\* three chapters the index holds
C16_Witness ==
    /\ Discovered
    /\ last.outcome = "blocked"
    /\ 9 \in Named
    /\ Reply.available_chapters = <<1, 2, 3>>
    /\ response_cache # <<>>

-----------------------------------------------------------------------------
(* The guardrail's verdict (specification SpecGuard)                       *)

\* the guardrail has just been called
Validating == last.kind = "validate"

\* the chapters the validated query names
Requested == { LoweredChapters[last.query][i] :
                   i \in 1..Len(LoweredChapters[last.query]) }

\* the chapters the guardrail's two index queries found, when neither raised
DiscoveryRaised ==
    \/ last.env.fault = "discover"
    \/ last.chapters = {} /\ last.env.fault = "embed"
Available == IF last.chapters = {} THEN last.env.broader ELSE last.chapters

\* C17, as stated: a query is blocked only if every chapter it names is
\* unavailable; a query that names at least one available chapter is let
\* through
C17_Original ==
    Validating =>
        (~last.validation.is_valid => Requested \cap Available = {})

\* C17, as the code has it: a query that names chapters is blocked exactly
\* when discovery went through, found at least one chapter, and at least one
\* of the named chapters is not among those found; a query naming an
\* available chapter together with an unavailable one is blocked, and the
\* message names the unavailable ones only
C17_BlocksOnAnyUnavailable ==
    Validating =>
        /\ ~last.validation.is_valid
           <=> /\ Requested # {}
               /\ ~DiscoveryRaised
               /\ Available # {}
               /\ Requested \ Available # {}
        /\ ~last.validation.is_valid
           => { last.validation.unavailable_chapters[i] :
                  i \in 1..Len(last.validation.unavailable_chapters) }
              = Requested \ Available

\* C17 witness: with chapters 1, 2 and 3 indexed, the query naming chapters
\* 2 and 9 was blocked
C17_Witness ==
    /\ Validating
    /\ last.query = Q_COMPARE
    /\ last.chapters = {1, 2, 3}
    /\ ~last.validation.is_valid
    /\ last.validation.unavailable_chapters = <<9>>

-----------------------------------------------------------------------------
(* The guardrail failing open (specification Spec)                         *)

\* the last request got past the blank check and the cache lookup
EnteredPipeline ==
    Served /\ ~OnlyWhitespace(last.query) /\ last.outcome # "cache_hit"

\* the last request went on to retrieval: the query was handed to the
\* embedding call, and the nearest-neighbour search was made unless the
\* embedding raised
WentToRetrieval ==
    /\ last.outcome # "blocked"
    /\ last.calls.embed >= 1
    /\ last.calls.search = 1 \/ last.status = 500 \/ last.outcome = "stream_error"

\* the guardrail's discovery raised / completed without finding a chapter
DiscoveryFailed == Named # {} /\ last.found = None
DiscoveredNothing ==
    Named # {} /\ last.found # None /\ last.found.chapters = {}

\* C18: if chapter discovery raises or discovers no chapter at all, the
\* query is valid and the request proceeds to retrieval; a query that names
\* no chapter is always valid and makes no discovery call
C18_GuardrailFailsOpen ==
    EnteredPipeline =>
        /\ DiscoveryFailed => WentToRetrieval /\ last.calls.discover = 1
        /\ DiscoveredNothing => WentToRetrieval /\ last.calls.discover = 2
        /\ Named = {} => WentToRetrieval /\ last.calls.discover = 0

\* C18 witness: the index sample and the broader search found no chapter,
\* and the request about chapter 9 was answered from the search results
C18_Witness ==
    /\ EnteredPipeline
    /\ DiscoveredNothing
    /\ 9 \in Named
    /\ last.calls.search = 1
    /\ last.outcome = "answered"

-----------------------------------------------------------------------------
(* The durable-backed service as a replacement of the in-memory one        *)
(* (specification SpecService)                                             *)

\* C20: whenever the durable store is disabled or a durable call fails, a
\* session operation completes through the in-memory service and does not
\* fail; for add_conversation_turn: no exception leaves the call, an id is
\* returned and the turn is the last message the in-memory service holds
\* for the session
C20_DropInFallback ==
    (last.kind = "turn" /\ last.fallback) =>
        /\ last.raised = None
        /\ last.id # None
        /\ last.session_id \in DOMAIN conversations
        /\ conversations[last.session_id] # <<>>
        /\ conversations[last.session_id][Len(conversations[last.session_id])].role
               = last.role

-----------------------------------------------------------------------------
(* Concurrent store_message calls (specification SpecStore)                *)

\* the history the in-memory service holds for a session
InMemory(session_id) ==
    IF session_id \in DOMAIN conversations
    THEN conversations[session_id] ELSE <<>>

\* the messages of the completed calls on a session
CompletedMessages(session_id) ==
    UNION { { threads[t].stored[i] : i \in
                { j \in 1..Len(threads[t].stored) :
                    threads[t].stored[j].conversationId = session_id } } :
            t \in StoreThreads }

\* C21: concurrent store_message calls on the same session lose no message:
\* the session's history holds exactly the messages of the calls that have
\* completed on it, each once and whole, whatever calls run on the other
\* sessions
C21_NoLostMessage ==
    \A session_id \in SessionIds :
        LET history == InMemory(session_id)
        IN  /\ { history[i] : i \in 1..Len(history) }
                   = CompletedMessages(session_id)
            /\ Len(history) = Cardinality(CompletedMessages(session_id))
            /\ \A i \in 1..Len(history) :
                   /\ DOMAIN history[i] =
                          {"id", "conversationId", "content", "role", "createdAt"}
                   /\ history[i].conversationId = session_id
                   /\ history[i].content = CONTENT

\* C21 witness: two callers were inside store_message for session s1 at
\* the same time (the one that drew its id later appended first), and both
\* messages are in its history, next to a message of session s2
C21_Witness ==
    /\ \A t \in StoreThreads : Len(threads[t].stored) = MaxStoreCalls
    /\ Len(InMemory("s1")) = 2
    /\ Len(InMemory("s2")) = 1
    /\ InMemory("s1")[1].id > InMemory("s1")[2].id

-----------------------------------------------------------------------------
(* Reading a session (specification SpecRead)                              *)

\* C22: reading a session's recent context (get_conversation_context,
\* build_context_prompt) never changes any stored history: no message is
\* added, removed or reordered, and no session entry is created for an
\* unknown session id
C22_ReadOnly ==
    [][last'.kind \in {"read", "prompt"} =>
           /\ conversations' = conversations
           /\ DOMAIN conversations' = DOMAIN conversations
           /\ messages_table' = messages_table]_vars

\* C22 witness: the context of a session the in-memory service does not
\* know was read from it while it holds the messages of another session
C22_Witness ==
    /\ last.kind = "read"
    /\ last.from_memory
    /\ last.session_id \notin DOMAIN conversations
    /\ last.messages = <<>>
    /\ conversations # <<>>

\* the history of the store the last read was answered from
ReadFrom ==
    IF last.from_memory THEN InMemory(last.session_id)
    ELSE SessionRows(messages_table, last.session_id)

\* C23: get_conversation_context(session_id, limit) returns exactly the
\* last min(limit, number stored) messages of the session, oldest first,
\* for every limit >= 0 (so never more than limit messages), and an empty
\* list for an unknown session
C23_LastMessages ==
    last.kind = "read" =>
        LET stored == ReadFrom
            n == IF last.limit < Len(stored) THEN last.limit ELSE Len(stored)
        IN  /\ Len(last.messages) = n
            /\ Len(last.messages) <= last.limit
            /\ \A i \in 1..n :
                  /\ last.messages[i].content = stored[Len(stored) - n + i].content
                  /\ Lower(last.messages[i].role)
                         = Lower(stored[Len(stored) - n + i].role)

\* C23 for the limits above zero: the same statement holds
C23_PositiveLimits == last.kind = "read" /\ last.limit > 0 => C23_LastMessages

-----------------------------------------------------------------------------
(* The age of a cache entry (specification Spec)                           *)

\* the entries of the cache after a step that were not in it before
NewEntries == Entries(response_cache') \ Entries(response_cache)

\* the step serves a request from the cache
HitStep == last' # last /\ last'.outcome = "cache_hit"

\* C24: a cache hit leaves the cache unchanged (the response and the
\* timestamp of the entry are not refreshed): an entry appears or changes
\* only by a cache write, stamped with the time of the write, so that the
\* entry a hit returns was written less than CACHE_TTL before the hit
C24_HitsDoNotRefresh ==
    [][/\ HitStep =>
            /\ response_cache' = response_cache
            /\ \E e \in Entries(response_cache) :
                  /\ e.key = get_cache_key(last'.query)
                  /\ e.response = Reply'
                  /\ last'.time = now
                  /\ now - e.timestamp < CACHE_TTL
       /\ \A e \in NewEntries :
            /\ e.timestamp = now
            /\ last'.cache_writes = 1
            /\ last'.outcome = "answered"
            /\ e.key = get_cache_key(last'.query)]_vars

\* C24 witness: an entry written at time 0 was returned by a hit at half
\* the TTL and is still in the cache with timestamp 0
C24_Witness ==
    /\ last.outcome = "cache_hit"
    /\ last.kind = "sync"
    /\ last.time = TickStep
    /\ Found.timestamp = 0
    /\ Found \in Entries(response_cache)

-----------------------------------------------------------------------------
(* The fragments of a streamed answer (specification SpecStream)           *)

\* the first n events are the chunk events of the fragments, in order, each
\* with the text accumulated so far
ChunksForwarded(events, fragments, n) ==
    /\ Len(events) >= n
    /\ \A k \in 1..n :
          /\ events[k].chunk = fragments[k]
          /\ events[k].partial_answer = SubSeq(fragments, 1, k)
          /\ events[k].is_streaming

\* C25: during streaming each generator fragment is forwarded to the caller
\* in arrival order and before the final event; the k-th chunk event's
\* partial_answer is the concatenation of the first k fragments, and the
\* final event's answer, the one cached, is the concatenation of all
\* fragments
C25_FragmentsInOrder ==
    /\ Generating =>
          /\ stream.full_answer \o stream.pending \in Answers
          /\ Len(stream.events) = Len(stream.full_answer)
          /\ ChunksForwarded(stream.events, stream.full_answer,
                             Len(stream.full_answer))
    /\ last.kind = "stream" /\ last.outcome = "answered" /\ last.calls.generate = 1 =>
          LET n == Len(last.events) - 1
              final == last.events[n + 1]
          IN  /\ final.answer \in Answers
              /\ Len(final.answer) = n
              /\ ChunksForwarded(last.events, final.answer, n)
              /\ ~final.is_streaming
              /\ \A e \in Entries(response_cache) :
                    e.key = get_cache_key(last.query) => e.response = final
    /\ last.kind = "stream" /\ last.outcome \in {"stream_error", "disconnected"}
       /\ last.calls.generate = 1 =>
          \E answer \in Answers :
              LET n == IF last.outcome = "disconnected" THEN Len(last.events)
                       ELSE Len(last.events) - 1
              IN  n <= Len(answer) /\ ChunksForwarded(last.events, answer, n)

\* C25 witness: a streamed answer of two fragments came as two chunk events
\* and the final event, and is in the cache
C25_Witness ==
    /\ last.kind = "stream"
    /\ last.outcome = "answered"
    /\ Len(last.events) = 3
    /\ last.events[2].partial_answer = <<"f1", "f2">>
    /\ last.events[3].answer = <<"f1", "f2">>
    /\ \E e \in Entries(response_cache) : e.response = last.events[3]

-----------------------------------------------------------------------------
(* Internal exceptions and the caller (specification SpecLeak)             *)

\* C26: an unexpected internal exception reaches the caller only as a
\* generic message: what the caller receives is the same whatever the text
\* of the internal exception is
C26_GenericError ==
    last.kind = "pair" => last.outputs[1] = last.outputs[2]

-----------------------------------------------------------------------------
(* The intent classifier (specification SpecIntent)                        *)

\* the classifier's reply is one of the three words, in any case and with
\* whitespace around it at most
WellFormedReply ==
    /\ last.reply.kind = "text"
    /\ \E w \in Intents : Lower(Strip(last.reply.content)) = Lower(w)

\* C27: classify_query_intent never raises and always returns one of the
\* enumerated intents GREETING, CHITCHAT or QUESTION; on any failure of the
\* classifier call (exception, malformed or empty reply) it returns QUESTION
C27_IntentEnumerated ==
    last.kind = "intent" =>
        /\ ~last.raised
        /\ last.intent \in Intents
        /\ ~WellFormedReply => last.intent = I_QUESTION

-----------------------------------------------------------------------------
(* Greetings and chit-chat in app1 (specification SpecChat)                *)

App1Served == last.kind \in {"app1_chat", "app1_llm", "app1_stream"}

CannedReplies == { WELCOME, WELCOME_BACK, CHIT_CHAT }

\* C28: a request classified as a greeting (or chit-chat) short-circuits to
\* a canned reply with no passages (relevant_passages = [], total_passages
\* = 0) and makes no embedding, vector-search or answer-generation call
C28_GreetingShortCircuits ==
    App1Served /\ last.intent \in {"GREETING", "CHITCHAT"} =>
        /\ last.outcome = IF last.intent = "GREETING" THEN "greeting" ELSE "chitchat"
        /\ last.status = 200
        /\ last.calls.embed = 0
        /\ last.calls.search = 0
        /\ last.calls.generate = 0
        /\ last.kind \in {"app1_chat", "app1_llm"} =>
              /\ last.body.answer \in CannedReplies
              /\ last.body.answer = CHIT_CHAT <=> last.intent = "CHITCHAT"
              /\ last.body.relevant_passages = <<>>
              /\ last.body.total_passages = 0
        /\ last.kind = "app1_stream" =>
              /\ Len(last.events) = 3
              /\ last.events[1].type = "content"
              /\ last.events[1].content \in CannedReplies
              /\ last.events[1].content = CHIT_CHAT <=> last.intent = "CHITCHAT"
              /\ last.events[2].type = "metadata"
              /\ last.events[2].total_passages = 0
              /\ last.events[3] = DoneEvent

\* C28 witness: POST /chat answered a greeting in a session that holds
\* messages, with the canned text and no passage
C28_Witness ==
    /\ last.kind = "app1_chat"
    /\ last.intent = "GREETING"
    /\ last.body.answer \in CannedReplies
    /\ last.body.total_passages = 0
    /\ last.calls = NoCalls
    /\ Stored(conversations, messages_table) > 0

-----------------------------------------------------------------------------
(* The reranker (specification SpecRerank)                                 *)

\* the case-folded whitespace tokens of a text
Tokens(text) == Words(Lower(text))

\* score is 12000 times 0.7 * similarity + 0.3 * keyword_overlap of the
\* chunk for the query, keyword_overlap being the share of the query's
\* tokens that are tokens of the chunk (0 for a query without tokens)
IsRerankScore(score, query, chunk) ==
    LET query_words == Tokens(query)
        n == Cardinality(query_words)
        common == Cardinality(query_words \cap Tokens(chunk.text))
    IN  IF n = 0 THEN score = 84 * chunk.score
        ELSE score * n = 84 * chunk.score * n + 3600 * common

\* the one-to-one assignments of output positions to input positions
Rearrangements(n) ==
    { p \in [1..n -> 1..n] : \A i, j \in 1..n : p[i] = p[j] => i = j }

\* C29: rerank_chunks_fast returns every input chunk exactly once with
\* rerank_score = 0.7 * similarity + 0.3 * keyword_overlap, ordered by
\* non-increasing rerank_score, chunks of equal score in their input order
C29_RerankStable ==
    last.kind = "rerank" =>
        LET chunks == last.chunks
            reranked == last.reranked
            n == Len(chunks)
        IN  /\ Len(reranked) = n
            /\ \A i \in 1..n - 1 :
                  reranked[i].rerank_score >= reranked[i + 1].rerank_score
            /\ \E p \in Rearrangements(n) :
                  /\ \A i \in 1..n :
                        /\ reranked[i].chunk_id = chunks[p[i]].chunk_id
                        /\ reranked[i].score = chunks[p[i]].score
                        /\ reranked[i].text = chunks[p[i]].text
                        /\ IsRerankScore(reranked[i].rerank_score, last.query,
                                         chunks[p[i]])
                  /\ \A i, j \in 1..n :
                        i < j /\ reranked[i].rerank_score = reranked[j].rerank_score
                        => p[i] < p[j]

\* C29 witness: of three chunks, the one of lowest similarity came first
\* for its shared words, and the two of equal score kept their input order
C29_Witness ==
    /\ last.kind = "rerank"
    /\ last.query = Q_DHARMA
    /\ last.chunks = << Match("c2", 50, T_FIELD), Match("c4", 50, T_DUTY),
                        Match("c1", 50, T_DUTY) >>
    /\ last.reranked[1].chunk_id = "c4"
    /\ last.reranked[2].chunk_id = "c1"
    /\ last.reranked[3].chunk_id = "c2"

-----------------------------------------------------------------------------
(* C30: a chunk id found more than once reaches the reranker once           *)

\* the positions of `list` that hold chunk id `id`
Occurrences(list, id) == { i \in DOMAIN list : list[i].chunk_id = id }

\* the highest similarity score chunk id `id` has in `list`
HighestScore(list, id) ==
    CHOOSE s \in { list[i].score : i \in Occurrences(list, id) } :
        \A i \in Occurrences(list, id) : list[i].score <= s

-----------------------------------------------------------------------------
(* C31, C38: normalize_query (specification SpecNormalize)                 *)

\* `sub` occurs in `s`
IsSubstring(sub, s) ==
    \E i \in 1..(Len(s) + 1) : \E j \in (i - 1)..Len(s) : SubSeq(s, i, j) = sub

\* the terms of the first rule from rule i on whose trigger occurs in `s`
RECURSIVE ExpansionFrom(_, _)
ExpansionFrom(s, i) ==
    IF i > Len(NormalizeRules) THEN <<>>
    ELSE IF IsSubstring(NormalizeRules[i].trigger, s) THEN NormalizeRules[i].terms
    ELSE ExpansionFrom(s, i + 1)

\* a step in which normalize_query returned
Normalized == last' # last /\ last'.kind = "normalize"

\* C31: normalize_query returns the query lower-cased and trimmed, followed
\* by the expansion terms of exactly the first rule, in table order, whose
\* trigger is a substring of it (nothing when no rule matches), whatever the
\* state of the service, and the call leaves that state as it was
C31_FirstRuleOnly ==
    [][Normalized =>
          /\ last'.normalized =
                 Lower(Strip(last'.query)) \o ExpansionFrom(Lower(Strip(last'.query)), 1)
          /\ UNCHANGED <<now, response_cache, indexed_chapters, stream, others>>]_vars

\* C31 witness: some time after the start, a query in which the triggers of
\* three rules occur got the terms of the first of them only
C31_Witness ==
    /\ last.kind = "normalize"
    /\ now > 0
    /\ last.query = Q_KARMA
    /\ last.normalized = <<"k","a","r","m","a"," ","y","o","g","a"," ","a","c","t","i","o","n"," ","d","e","e","d","s"," ","c","o","n","s","e","q","u","e","n","c","e","s">>

\* the rules of the phrases 'karma yoga', 'bhakti yoga' and 'jnana yoga'
PhraseRules ==
    { i \in 1..Len(NormalizeRules) : IsSubstring(<<" ">>, NormalizeRules[i].trigger)
                                      /\ IsSubstring(<<"y","o","g","a">>, NormalizeRules[i].trigger) }

\* C38 as stated: a query containing 'karma yoga', 'bhakti yoga' or 'jnana
\* yoga' is expanded by normalize_query with that phrase's own expansion terms
C38_PhraseExpansion ==
    last.kind = "normalize" =>
        \A i \in PhraseRules :
            IsSubstring(NormalizeRules[i].trigger, Lower(Strip(last.query)))
            => last.normalized = Lower(Strip(last.query)) \o NormalizeRules[i].terms

-----------------------------------------------------------------------------
(* C32: the evidence context and the sources (specification SpecContext)   *)

\* the smaller of two numbers
Smaller(a, b) == IF a < b THEN a ELSE b

\* C32: the evidence context is built from the first min(N, number of
\* reranked chunks) chunks in rerank order, N being 8 for an intent that
\* needs comprehensive context and 5 otherwise; the sources of the response
\* are the first at most 3 of those chunks in the same order, and its
\* confidence is the highest rerank_score among the reranked chunks
C32_ContextSelection ==
    (last.kind = "assemble" /\ last.generates) =>
        LET reranked == last.reranked
            n == IF QueryIntent[last.query].needs_comprehensive_context
                 THEN 8 ELSE 5
            k == Smaller(n, Len(reranked))
            sources == last.response.sources
        IN  /\ Len(last.context) = k
            /\ \A i \in 1..k :
                  /\ last.context[i].source = i
                  /\ last.context[i].text = reranked[i].text
                  /\ last.context[i].score = reranked[i].score
            /\ Len(sources) = Smaller(3, k)
            /\ \A i \in 1..Len(sources) : sources[i] = reranked[i]
            /\ \A i \in 1..Len(reranked) :
                  last.response.confidence >= reranked[i].rerank_score
            /\ \E i \in 1..Len(reranked) :
                  last.response.confidence = reranked[i].rerank_score

\* C32 witness: eight chunks were reranked for a query that does not need
\* comprehensive context, a chunk that shares words with the query ahead of
\* the best match of the search; five of them made the context, three the
\* sources
C32_Witness ==
    /\ last.kind = "assemble"
    /\ last.query = Q_DHARMA
    /\ Len(last.reranked) = 8
    /\ last.reranked[1].chunk_id # last.matches[1].chunk_id
    /\ Len(last.context) = 5
    /\ Len(last.response.sources) = 3

-----------------------------------------------------------------------------
(* C33: the embedding cache (specification SpecEmbed)                      *)

\* the keys the embedding cache holds
CachedKeys(cache) == { cache[i].key : i \in 1..Len(cache) }

\* a step in which a call of embed_text or embed_text_async returned that
\* had begun in the same step
ReturnedAtOnce ==
    /\ last'.kind \in {"embed_text", "embed_text_async"}
    /\ last'.task # 0 => embed_calls[last'.task].pc = "idle"

\* C33: over every sequence and asyncio interleaving of embed_text and
\* embed_text_async calls the embedding cache holds one entry per key and at
\* most the maximum number of entries; an entry leaves it only as the
\* earliest-inserted one of a full cache; and a call for a text that is
\* cached returns the cached vector without calling the embedding service
C33_EmbeddingCache ==
    [][/\ Len(embedding_cache') <= cache_max_size
       /\ Cardinality(CachedKeys(embedding_cache')) = Len(embedding_cache')
       /\ \A i \in 1..Len(embedding_cache) :
             embedding_cache[i].key \notin CachedKeys(embedding_cache')
             => i = 1 /\ Len(embedding_cache) >= cache_max_size
       /\ \A i \in 1..Len(embedding_cache) :
             (ReturnedAtOnce /\ embedding_cache[i].key = <<"md5", last'.text>>)
             => /\ last'.vector = embedding_cache[i].embedding
                /\ last'.service_calls = 0
                /\ embedding_cache' = embedding_cache]_vars

\* C33 witness: while one embed_text_async call waits for the service,
\* another one returned that found the cache full and left it full, without
\* its earliest-inserted entry
C33_Witness ==
    /\ last.kind = "embed_text_async"
    /\ last.service_calls = 1
    /\ Len(last.cache_before) = cache_max_size
    /\ Len(embedding_cache) = cache_max_size
    /\ last.cache_before[1].key \notin CachedKeys(embedding_cache)
    /\ \E t \in EmbedTasks : embed_calls[t].pc = "awaiting"

-----------------------------------------------------------------------------
(* C34: what the response cache holds (specification Spec)                 *)

\* a final response of a completed generation over at least one chunk
CompleteAnswer(response) ==
    /\ DOMAIN response \in
           { {"answer", "confidence", "sources", "total_sources_found",
              "context_quality", "response_type"},
             {"answer", "confidence", "sources", "total_sources_found",
              "context_quality", "response_type", "is_streaming"} }
    /\ response.answer \in Answers
    /\ response.total_sources_found >= 1
    /\ response.sources # <<>>

\* C34: every entry of the response cache holds the final response of a
\* completed generation over at least one retained chunk (no guardrail
\* block, no-knowledge, partial-stream or error response is ever stored),
\* and so does every response a cache hit returns
C34_OnlyCompleteAnswersCached ==
    /\ \A i \in 1..Len(response_cache) : CompleteAnswer(response_cache[i].response)
    /\ (last.kind = "sync" /\ last.outcome = "cache_hit")
       => CompleteAnswer(last.body)
    /\ (last.kind = "stream" /\ last.outcome = "cache_hit")
       => Len(last.events) = 1 /\ CompleteAnswer(last.events[1])

\* C34 witness: a caller left a stream that had sent a fragment, while the
\* cache held the answer of another query, and none of the query streamed
C34_Witness ==
    /\ last.kind = "stream"
    /\ last.outcome = "disconnected"
    /\ last.events # <<>>
    /\ response_cache # <<>>
    /\ KeyIndex(response_cache, NormalizedQuery[last.query]) = 0

------------------------------------------------------------------------------
(* The entry a cache_response call wrote and the eviction of that same call *)
(* (specification SpecConc)                                                 *)

\* C35: the entry just written by cache_response is never the one evicted by
\* that same call: the del of a call (line 49) never removes the entry under
\* the call's own key, so that get_cached_response of that key right after
\* the call returns what was written
C35_OwnEntrySurvives ==
    [][\A t \in Threads :
          (threads[t].pc = "p_del" /\ threads'[t].pc = "done")
          => ~(/\ KeyIndex(response_cache, ThreadKey(t)) # 0
               /\ KeyIndex(response_cache', ThreadKey(t)) = 0)]_vars

------------------------------------------------------------------------------
(* What a read of a session shows of the messages stored for it            *)
(* (specification SpecSession)                                             *)

\* the messages store_message returned an id for, in a session: those held
\* in memory and the rows of the messages table
StoredFor(session_id) ==
    Len(SessionRows(messages_table, session_id))
    + (IF session_id \in DOMAIN conversations
       THEN Len(conversations[session_id]) ELSE 0)

\* C36: every message store_message returned an id for is visible to a later
\* get_conversation_context of its session when it is among the last `limit`
\* messages, whatever durable calls failed: the read returns the last
\* `limit` of all the messages stored for the session
C36_StoredIsVisible ==
    last.kind = "context"
    => Len(last.messages) = Smaller(last.limit, StoredFor(last.session_id))

------------------------------------------------------------------------------
(* The streaming and the synchronous endpoint compared (specification      *)
(* SpecBoth)                                                                *)

\* the last event a streamed reply sent
FinalEvent(result) == result.events[Len(result.events)]

\* C37: for the same query, cache state and collaborator results the two
\* endpoints take the same outcome path, the final event of the stream
\* carries the answer, confidence and sources of the synchronous response,
\* and the two leave the same cache contents
C37_EndpointsAgree ==
    (last.kind = "both"
     /\ last.sync.outcome \in {"cache_hit", "blocked", "no_knowledge", "answered"})
    => /\ last.stream.outcome = last.sync.outcome
       /\ last.stream.events # <<>>
       /\ FinalEvent(last.stream).answer = last.sync.body.answer
       /\ FinalEvent(last.stream).confidence = last.sync.body.confidence
       /\ FinalEvent(last.stream).sources = last.sync.body.sources
       /\ last.stream_cache = last.sync_cache

------------------------------------------------------------------------------
(* The reply to a greeting (specification SpecChat)                        *)

\* the messages of a session held by the two stores
HistoryIn(convs, table, session_id) ==
    (IF session_id \in DOMAIN convs THEN convs[session_id] ELSE <<>>)
    \o SessionRows(table, session_id)

\* C39: a greeting receives the first-turn welcome exactly when its session
\* has no stored message yet and the "great to see you again" reply
\* otherwise, and in both cases the reply is stored as an assistant message
\* of that session
C39_GreetingByHistory ==
    [][(ChatServed' /\ last'.outcome = "greeting" /\ last' # last)
       => LET before == HistoryIn(conversations, messages_table,
                                  last'.session_id)
              after == HistoryIn(conversations', messages_table',
                                 last'.session_id)
          IN  /\ last'.body.answer = WELCOME <=> before = <<>>
              /\ last'.body.answer = WELCOME_BACK <=> before # <<>>
              /\ \E i \in 1..Len(after) :
                    /\ after[i].content = last'.body.answer
                    /\ Lower(after[i].role) = R_ASSISTANT]_vars

====
